---- MODULE Spec2Model ----
(***************************************************************************)
(* Transfer engine of the pan client: the uploader of file/upload.go       *)
(* (precreate, slice upload under a semaphore of 2, create) and the        *)
(* downloader of utils/file/download.go (part plan, part fetch, merge).    *)
(*                                                                         *)
(* Upload sizes are counted in units of 2 MiB, so that the tier slice      *)
(* sizes 4 MiB, 16 MiB and 32 MiB are 2, 8 and 16.  An MD5 is modelled as  *)
(* a positive integer and the empty string "" of the code as 0.            *)
(***************************************************************************)
EXTENDS Integers, Sequences, FiniteSets, TLC

\* ------------------------------------------------------------------ bounds
\* Largest local file (units of 2 MiB).
MaxFileSize == 3
\* Largest of the small files, largest of the small part sizes and largest
\* preset part count the part plan is computed for (bytes, bytes, parts).
MaxPlanFileSize == 12
MaxPlanPartSize == 3
MaxPresetTotalPart == 3
\* Largest slice or part a retry driver is run for (bytes).
MaxRetryLen == 2
\* The attempts of one driver that are followed in a transfer with two
\* drivers side by side.
MaxProgTries == 2

\* --------------------------------------------------------- program constants
\* sliceSize = 4194304 (4M), in units of 2 MiB
SliceSizeFree == 2
\* sliceSize = 16777216 (16M)
SliceSizeVip == 8
\* sliceSize = 33554432 (32M)
SliceSizeSvip == 16
\* sem := make(chan int, 2)
UploadSemCap == 2
\* maxTotalPart := 100
MaxTotalPart == 100
\* PartSize: 10485760 (10M) in NewFileDownloader
PartSizeDefault == 10485760
\* PartCoroutineNum: 1 in NewFileDownloader
CoroutineNumDefault == 1
\* downloader.SetCoroutineNum(5) for VIP type 2
CoroutineNumSvip == 5
\* downloader.SetPartSize(52428800) for VIP type 2
PartSizeSvip == 52428800
\* buffer := make([]byte, 1024*1024) in DownloadWhole
WholeBufferLen == 1048576
\* for i := 0; i < 10; i++ in TrySuperFile2Upload
SliceTryNum == 10
\* for i := 0; i < 10; i++ in tryDownloadPart
PartTryNum == 10
\* for i := 0; i < 5; i++ in TryPrepare
PrepareTryNum == 5
\* for i := 0; i < 3; i++ in ensureDirExist
MkdirTryNum == 3
\* The bytes multipart.Writer puts around the slice in the request body
\* (boundary lines and part header), counted as one.
MultipartOverhead == 1

\* Two transfer tasks of one process; a task is one Upload call followed by
\* the ResumeUpload calls its caller makes with the snapshot it got back.
Tasks == {"a", "b"}
NoTask == "none"

FileSizes == 0..MaxFileSize
SliceIdx == 0..(MaxFileSize - 1)
\* Uploader.SliceSize as the caller sets it: 0 is "not set".
ExplicitSliceSizes == {0, 1, MaxFileSize + 1}
VipTypes == {0, 1, 2}
\* The local file: its size, which of two contents of that size it holds,
\* and its modification time.
Files == [size : FileSizes, ver : {0, 1}, mtime : {1, 2}]
\* The file of a slot that no task uses.
NoFile == [size |-> 0, ver |-> 0, mtime |-> 1]
\* What the file f can have become when the caller resumes: left alone,
\* touched (a later mtime), or rewritten (another content, perhaps one unit
\* shorter or longer; a content of another size comes with a later mtime).
FilesAfter(f) ==
    {g \in Files :
        /\ g.mtime >= f.mtime
        /\ g.ver >= f.ver
        /\ g.size \in {f.size - 1, f.size, f.size + 1}
        /\ g.size # f.size => (g.ver > f.ver /\ g.mtime > f.mtime)}
\* The MD5 of a file: one value per content.
FileMd5(f) == 2 * f.size + f.ver + 1

Min(a, b) == IF a < b THEN a ELSE b

\* math.Ceil(float64(a) / float64(b)) for b > 0
CeilDiv(a, b) == (a + b - 1) \div b

VARIABLES
    localFile,    \* task -> the local file now, one of Files
    uploader,     \* task -> the Uploader object: [SliceSize, FileInfo]
    cancelled,    \* task -> ctx.Done() is closed
    UploadLock,   \* the task holding the process-wide mutex, or NoTask
    kind,         \* task -> "off" | "Upload" | "ResumeUpload" (the running call)
    pc,           \* task -> position of the call's own goroutine
    retSnapshot,  \* task -> the call's snapshot (returned as it stands)
    loc,          \* task -> locals of the call
    hasFailed,    \* task -> the flag the workers set
    work,         \* task -> slice index -> the worker goroutine of that slice
    uploadRespChan, \* task -> the buffered result channel
    ret,          \* task -> what the last call returned: [err, resp]
    progress,     \* task -> the last call of progressHandler: <<phase, done, total>>
    wire,         \* task -> requests of the running call seen by the servers
    srvPart,      \* task -> slice index -> length of the part the server holds
                  \*         under the task's upload id (0: none)
    d,            \* the Downloader: [FileSize, TotalPart, PartSize, PartCoroutineNum]
    snapshot,     \* the DownloadSnapshot the engine fills in for its caller
    jobs,         \* the part plan of Download
    dlKind,       \* "off" | "Download" | "ResumeDownload" (the running engine call)
    dlPc,         \* position of the engine call's own goroutine
    dlLoc,        \* locals of the engine call
    dlWork,       \* part workers: [run, sent], the indexes of the workers inside
                  \* tryDownloadPart and of those that sent and hold their permit
    downloadRespChan, \* the buffered result channel of the engine call:
                  \* [msgs, firstErr], see NoDlChan
    dlHasFailed,  \* the flag hasFailed of the engine call
    dlCancelled,  \* ctx.Done() of the engine call is closed
    disk,         \* the part files that exist in tempDir (by path)
    dlRet,        \* what the engine call returned: [err, delFiles]
    quiet,        \* the surroundings of the engine calls: when TRUE, requests
                  \* fail only under a cancelled context, the caller cancels no
                  \* running call and no part file is lost between calls
    retry,        \* one run of a retry driver, see NoRetry
    prog,         \* the progress counter and ticks of one transfer, see NoProg
    dest,         \* the file at the destination path, see NoDest
    cut,          \* the part files on disk that hold less than their part
    facade,       \* the Download call of the facade, see NoFacade
    pure          \* one call of a function without side effects, see NoPure

\* The variables of the uploader and of the download engine.
up == <<localFile, uploader, cancelled, UploadLock, kind, pc,
        retSnapshot, loc, hasFailed, work, uploadRespChan, ret, progress, wire,
        srvPart>>
dl == <<d, snapshot, jobs, dlKind, dlPc, dlLoc, dlWork, downloadRespChan,
        dlHasFailed, dlCancelled, disk, dlRet, quiet>>
aux == <<retry, prog, dest, cut, facade, pure>>
vars == <<up, dl, aux>>

\* ------------------------------------------------------------ data model
\* LocalFileInfo{} with Md5 == "": nothing cached yet.
NoFileInfo == [Md5 |-> 0, Size |-> 0, ModTime |-> 0]

\* fileUtil.UploadSnapshot{} (Path and LocalPath are fixed per task)
EmptySnapshot ==
    [UploadId |-> 0, FileMd5 |-> 0, FileModTime |-> 0, Recoverable |-> FALSE,
     DoneSize |-> 0, TotalSize |-> 0, SliceSize |-> 0, SliceNum |-> 0,
     DoneSlices |-> <<>>]

\* make([]string, n): n empty strings; a negative n never gets here.
MakeStrings(n) == [k \in 1..n |-> 0]

\* No goroutine for a slice: not started yet, or ended.
NoWorker == [st |-> "none", off |-> 0, len |-> 0]

\* i, uploadSliceNum, uploadErr, uploadID, blockList, fileSize, sliceSize and
\* sliceNum are the locals of those names.  pos is the read position of
\* localFile in Upload and the variable offset in ResumeUpload; offset and n
\* are the start and length of the buffer read for slice i; recv is the index
\* of the consumer loop.
NoLocals ==
    [i |-> 0, n |-> 0, offset |-> 0, pos |-> 0, uploadSliceNum |-> 0,
     uploadErr |-> "nil", recv |-> 0, fileSize |-> 0, sliceSize |-> 0,
     sliceNum |-> 0, uploadID |-> 0, blockList |-> <<>>]

\* precreate, create: the requests sent (with precreate's answer); slices:
\* per partseq the byte ranges of the slice uploads that succeeded;
\* underLock: every slice upload and create request so far was sent while
\* the task held UploadLock; had: the slices the input snapshot of the
\* running ResumeUpload names as done.
NoWire ==
    [precreate |-> <<>>, create |-> <<>>, slices |-> [k \in SliceIdx |-> <<>>],
     underLock |-> TRUE, had |-> {}]

\* err: the error returned ("nil": none); resp: the UploadResponse returned
\* ("info": precreate's Info, "created": create's answer); at: the phase the
\* call returned from.
NoRet == [err |-> "nil", resp |-> "none", at |-> "none"]

\* The MD5 the server answers for slice partSeq of an upload.
ServerSliceMd5(partSeq) == partSeq + 1

\* The upload id the precreate answer carries.
ServerUploadId(t) == IF t = "a" THEN 1 ELSE 2

\* ------------------------------------------------------- pure operations
\* Uploader.GetFileInfo: the cached FileInfo when its Md5 is set, else the
\* size, mtime and MD5 of the file as it is now.
GetFileInfo(u, f) ==
    IF u.FileInfo.Md5 # 0
    THEN u.FileInfo
    ELSE [Md5 |-> FileMd5(f), Size |-> f.size, ModTime |-> f.mtime]

\* The slice size of a tier before it is clamped to the file size.
TierSliceSize(vip) ==
    IF vip = 1 THEN SliceSizeVip
    ELSE IF vip = 2 THEN SliceSizeSvip
    ELSE SliceSizeFree

\* Uploader.GetSliceSize: the result. lookupOk is whether account.UserInfo
\* answered.
GetSliceSize(u, fileSize, vip, lookupOk) ==
    IF u.SliceSize > 0 THEN u.SliceSize
    ELSE IF ~lookupOk THEN SliceSizeFree
    ELSE IF fileSize <= TierSliceSize(vip) THEN fileSize
    ELSE TierSliceSize(vip)

\* Uploader.GetSliceSize: u.SliceSize afterwards (set on the tier path only).
SliceSizeCached(u, fileSize, vip, lookupOk) ==
    IF u.SliceSize > 0 \/ ~lookupOk THEN u.SliceSize
    ELSE GetSliceSize(u, fileSize, vip, lookupOk)

\* sliceNum := int(math.Ceil(float64(fileSize) / float64(sliceSize))).
\* With sliceSize == 0 (an empty file on the tier path) the quotient is NaN
\* and the conversion is implementation-dependent: 0 on arm64, the most
\* negative int on amd64, written -1 here.
SliceNumOutcomes(fileSize, sliceSize) ==
    IF sliceSize > 0 THEN {CeilDiv(fileSize, sliceSize)} ELSE {0, -1}

\* Mutant of ReadLen: the whole buffer is sent whatever Read returned.
ReadLenWholeBuffer(f, pos, bufLen) ==
    IF pos >= f.size THEN 0 ELSE bufLen

\* localFile.Read(buffer) at file position pos with len(buffer) == bufLen.
ReadLen(f, pos, bufLen) ==
    IF pos >= f.size THEN 0 ELSE Min(bufLen, f.size - pos)

\* getBlockList: the number of entries of the block_list sent at precreate.
BlockListLen(f, fileSize, sliceSize) ==
    IF sliceSize = fileSize THEN 1 ELSE CeilDiv(f.size, sliceSize)

\* SuperFile2UploadResponse.PartSeq: the server echoes the partseq it got.
RespPartSeq(partSeq) == partSeq

\* PreCreateResponse.Info.Size of a dedup answer: the size the server holds
\* for the content, which is the size the request announced.
DedupInfoSize(reqSize) == reqSize

\* Mutant of LockFree: Lock() never waits.
LockFreeAlways == TRUE

\* UploadLock.Lock() returns only when no call holds the mutex.
LockFree == UploadLock = NoTask

\* Permits of sem held: workers admitted that have not run <-sem yet.
Permits(t) == Cardinality({k \in SliceIdx : work[t][k].st \in {"run", "sent"}})

\* Mutant of PermitFree: a semaphore of one permit more.
PermitFreeOneMore(t) == Permits(t) <= UploadSemCap

\* sem <- 1 goes through only while fewer than cap(sem) permits are held.
PermitFree(t) == Permits(t) < UploadSemCap

\* A racy read of hasFailed by the producer: workers write the flag with no
\* synchronisation, so the read yields the written value or the stale false.
ReadHasFailed(t) == {hasFailed[t], FALSE}

\* ------------------------------------------------------------------ Init
\* Downloader{}, DownloadSnapshot{} and the locals of an engine call.
NoDownloader == [FileSize |-> 0, TotalPart |-> 0, PartSize |-> 0, PartCoroutineNum |-> 0]

EmptyDownloadSnapshot ==
    [Recoverable |-> FALSE, DoneSize |-> 0, TotalSize |-> 0, PartSize |-> 0,
     TotalPart |-> 0, DoneParts |-> <<>>]

\* i is the index of the producer loop, recv the index of the consumer
\* loop, semCap the capacity sem was made with; the others are the locals
\* of those names.
NoDlLocals ==
    [i |-> 0, downloadPartNum |-> 0, donePartNum |-> 0, downloadErr |-> "nil",
     recv |-> 0, semCap |-> 0, delFiles |-> {}]

NoDlRet == [err |-> "nil", delFiles |-> {}, at |-> "none"]

\* The empty downloadRespChan.  The channel is first-in first-out; of the
\* order of its results the consumer observes only which error came first,
\* so the channel is kept as the set of results in it (one per part, with
\* whether it is a failure) and the error of the first failed result sent.
NoDlChan == [msgs |-> {}, firstErr |-> "nil"]

\* No download engine call is made.
DownloadIdle ==
    /\ d = NoDownloader
    /\ snapshot = EmptyDownloadSnapshot
    /\ jobs = <<>>
    /\ dlKind = "off"
    /\ dlPc = "off"
    /\ dlLoc = NoDlLocals
    /\ dlWork = [run |-> {}, sent |-> {}]
    /\ downloadRespChan = NoDlChan
    /\ dlHasFailed = FALSE
    /\ dlCancelled = FALSE
    /\ disk = {}
    /\ dlRet = NoDlRet
    /\ quiet = TRUE

\* Before the Upload call of each task in active: a new Uploader (with or
\* without an explicit SliceSize) on a local file out of files.
InitWith(active, files, explicit) ==
    /\ cancelled = [t \in Tasks |-> FALSE]
    /\ UploadLock = NoTask
    /\ retSnapshot = [t \in Tasks |-> EmptySnapshot]
    /\ loc = [t \in Tasks |-> NoLocals]
    /\ hasFailed = [t \in Tasks |-> FALSE]
    /\ work = [t \in Tasks |-> [k \in SliceIdx |-> NoWorker]]
    /\ uploadRespChan = [t \in Tasks |-> <<>>]
    /\ ret = [t \in Tasks |-> NoRet]
    /\ progress = [t \in Tasks |-> <<>>]
    /\ wire = [t \in Tasks |-> NoWire]
    /\ srvPart = [t \in Tasks |-> [k \in SliceIdx |-> 0]]
    /\ kind = [t \in Tasks |-> IF t \in active THEN "Upload" ELSE "off"]
    /\ pc = [t \in Tasks |-> IF t \in active THEN "start" ELSE "off"]
    /\ localFile \in [Tasks -> Files]
    /\ uploader \in [Tasks -> [SliceSize : ExplicitSliceSizes, FileInfo : {NoFileInfo}]]
    /\ \A t \in active : localFile[t] \in files /\ uploader[t].SliceSize \in explicit
    /\ \A t \in Tasks \ active : localFile[t] = NoFile /\ uploader[t].SliceSize = 0

\* One run of a retry driver.  kind: the driver; pc: "top" is the head of
\* its loop, "attempt" inside the unit of work, "failed" after a failed
\* attempt of a slice or part, "done" after the return.  i is the loop
\* index, err the variable err ("nil", or the error of an attempt: which
\* attempt, and whether it is the context's error), cancelled whether
\* ctx.Done() is closed, partDoneSize the local of that name, doneSize the
\* counter of the caller's internalProgressHandler, fileSize the total the
\* caller counts up to, len the bytes of the slice or part.  History: tries
\* counts the attempts started, ok is the attempt that succeeded (0: none),
\* late counts the attempts started after a success, blind the attempts
\* started under a cancelled context, sent the bytes the running attempt
\* has reported, before the counter when the last attempt started, base the
\* counter when the driver was called.  Of a part: FilePath is
\* retPart.FilePath (0: empty; the file of attempt n is written n, for the
\* name has the time in it), files the part files on disk, consumed whether
\* the consumer loop has received the result, delFiles its list of that
\* name and donePath the file_path it stored in snapshot.DoneParts.
NoRetry ==
    [kind |-> "off", pc |-> "off", i |-> 0, err |-> [at |-> 0, why |-> "nil"],
     cancelled |-> FALSE, partDoneSize |-> 0, doneSize |-> 0, fileSize |-> 0,
     len |-> 0, tries |-> 0, ok |-> 0, late |-> 0, blind |-> 0, sent |-> 0,
     before |-> 0, base |-> 0, FilePath |-> 0, files |-> {}, consumed |-> FALSE,
     delFiles |-> {}, donePath |-> 0]

\* The progress of one transfer.  kind: the call; pc: "transfer" while the
\* slices or parts move, "merge" while the parts are merged, "open" and
\* "whole" in DownloadWhole, "returned" after the call.  total is the size
\* the ticks count up to, doneSize the counter of the handler that is in
\* use, unit the slices or parts with the driver of each (st: "had" when the
\* input snapshot has it, "wait", "run", "ok", or "dead" when its driver
\* gave up), merged the parts appended by the merge, err the error returned.
\* History: last is the done_size of the last tick of each phase (-1: no
\* tick yet), rolled whether a rollback ran since the last tick, mono
\* whether no tick so far came with a smaller done_size than the tick before
\* it in its phase without a rollback between the two, ranged whether every
\* tick so far came with a done_size from 0 to total.
NoProg ==
    [kind |-> "off", pc |-> "off", total |-> 0, doneSize |-> 0, unit |-> <<>>,
     merged |-> 0, err |-> "nil", last |-> [ph \in {2, 3} |-> 0 - 1],
     rolled |-> FALSE, mono |-> TRUE, ranged |-> TRUE]

\* The destination path: not written by the call so far (it holds what it
\* held before, or nothing), or created by the call and holding the byte
\* ranges of the remote file written so far, in the order written.
NoDest == [touched |-> FALSE, parts |-> <<>>]

\* The Download call of the facade: pc is "start" before the call, "whole"
\* in DownloadWhole, "engine" in the Download of the engine, "returned"
\* after; supportRange is what TryPrepare returned, err the error returned.
\* Its retSnapshot is the variable snapshot, but for VipType and FileMd5,
\* which are kept here (0: not set).  In a ResumeDownload call (call): pc is
\* "rwhole" in DownloadWhole, "revert" in the engine's Download after a
\* mismatch and "rengine" in the engine's ResumeDownload; delFiles is the
\* list of that name; oldFiles are the files the input snapshot recorded
\* and mismatch whether its VipType or FileMd5 differed from the current
\* ones.  epoch counts the calls made before this one: the part files of a
\* call have the time in their names, so that no two calls share a name.
NoFacade ==
    [pc |-> "off", call |-> "Download", supportRange |-> FALSE, err |-> "nil",
     VipType |-> 0, FileMd5 |-> 0, delFiles |-> {}, oldFiles |-> {},
     mismatch |-> FALSE, epoch |-> 0]

\* A call of a function that is looked at on its own: op is its name, in
\* its arguments, out its result once done.
NoPure == [op |-> "none", in |-> <<>>, out |-> <<>>, done |-> FALSE]

\* No retry driver runs on its own, no progress is followed and no call of
\* the facade is made.
AuxIdle ==
    /\ retry = NoRetry /\ prog = NoProg /\ dest = NoDest /\ cut = {} /\ facade = NoFacade
    /\ pure = NoPure

\* One task uploads a file of any size; the other slot stays empty.
Init ==
    /\ InitWith({"a"}, [size : FileSizes, ver : {0}, mtime : {1}], ExplicitSliceSizes)
    /\ DownloadIdle
    /\ AuxIdle

\* Two tasks upload in one process in slices of one unit: a file of two
\* units and a file of one unit, neither modified between the calls.
InitTwo ==
    /\ InitWith(Tasks, [size : {1, 2}, ver : {1}, mtime : {2}], {1})
    /\ localFile["a"].size = 2
    /\ localFile["b"].size = 1
    /\ DownloadIdle
    /\ AuxIdle

\* --------------------------------------------------------------- actions
\* A return of the running call: the deferred UploadLock.Unlock() runs when
\* the call holds the lock, and the locals of the call are gone.
Return(t, err, resp, at) ==
    /\ pc' = [pc EXCEPT ![t] = "returned"]
    /\ ret' = [ret EXCEPT ![t] = [err |-> err, resp |-> resp, at |-> at]]
    /\ UploadLock' = IF UploadLock = t THEN NoTask ELSE UploadLock
    /\ loc' = [loc EXCEPT ![t] = NoLocals]

\* Mutant of DedupSnapshot: DoneSize is left at zero.
DedupSnapshotNoDone(s1, size) == [s1 EXCEPT !.TotalSize = size]

\* Upload, lines 117-118: the snapshot of a dedup hit; Recoverable stays
\* false.
DedupSnapshot(s1, size) == [s1 EXCEPT !.DoneSize = size, !.TotalSize = size]

\* Upload, lines 93-121: PreCreate and the dedup branch.
UploadPreCreate(t) ==
    /\ pc[t] = "start" /\ kind[t] = "Upload"
    /\ \E outcome \in {"err", "dedup", "normal"}, vip \in VipTypes, lookupOk \in BOOLEAN :
        LET info == GetFileInfo(uploader[t], localFile[t])
            z    == GetSliceSize(uploader[t], info.Size, vip, lookupOk)
            u1   == [uploader[t] EXCEPT
                       !.FileInfo = info,
                       !.SliceSize = SliceSizeCached(uploader[t], info.Size, vip, lookupOk)]
            req  == [size |-> info.Size, blocks |-> BlockListLen(localFile[t], info.Size, z),
                     sliceSize |-> z, answer |-> outcome]
            s1   == [EmptySnapshot EXCEPT !.FileMd5 = info.Md5,
                                          !.FileModTime = info.ModTime]
        IN
        /\ cancelled[t] => outcome = "err"
        /\ uploader' = [uploader EXCEPT ![t] = u1]
        /\ wire' = [wire EXCEPT ![t].precreate = Append(@, req)]
        /\ CASE outcome = "err" ->
                  /\ retSnapshot' = [retSnapshot EXCEPT ![t] = EmptySnapshot]
                  /\ progress' = progress
                  /\ Return(t, "precreate", "none", "precreate")
             [] outcome = "dedup" ->
                  /\ retSnapshot' = [retSnapshot EXCEPT ![t] =
                        DedupSnapshot(s1, DedupInfoSize(req.size))]
                  /\ progress' = [progress EXCEPT ![t] =
                        <<2, DedupInfoSize(req.size), DedupInfoSize(req.size)>>]
                  /\ Return(t, "nil", "info", "precreate")
             [] outcome = "normal" ->
                  /\ retSnapshot' = [retSnapshot EXCEPT ![t] =
                        [s1 EXCEPT !.UploadId = ServerUploadId(t)]]
                  /\ loc' = [loc EXCEPT ![t].uploadID = ServerUploadId(t)]
                  /\ pc' = [pc EXCEPT ![t] = "lock"]
                  /\ UNCHANGED <<ret, UploadLock, progress>>
    /\ UNCHANGED <<aux, dl, srvPart, localFile, cancelled, kind, hasFailed, work,
                   uploadRespChan>>


\* Upload, lines 123-166: UploadLock.Lock(), slice size and slice count,
\* os.Open, the channels.
UploadSetup(t) ==
    /\ pc[t] = "lock" /\ kind[t] = "Upload"
    /\ LockFree
    /\ \E vip \in VipTypes, lookupOk \in BOOLEAN, openOk \in BOOLEAN :
        LET info == GetFileInfo(uploader[t], localFile[t])
            z    == GetSliceSize(uploader[t], info.Size, vip, lookupOk)
            u1   == [uploader[t] EXCEPT
                       !.FileInfo = info,
                       !.SliceSize = SliceSizeCached(uploader[t], info.Size, vip, lookupOk)]
        IN
        \E num \in SliceNumOutcomes(info.Size, z) :
            /\ uploader' = [uploader EXCEPT ![t] = u1]
            /\ retSnapshot' = [retSnapshot EXCEPT ![t].TotalSize = info.Size,
                                                  ![t].SliceSize = z,
                                                  ![t].SliceNum = num]
            /\ IF ~openOk
               THEN /\ pc' = [pc EXCEPT ![t] = "returned"]
                    /\ ret' = [ret EXCEPT ![t] = [err |-> "open", resp |-> "none", at |-> "setup"]]
                    /\ loc' = [loc EXCEPT ![t] = NoLocals]
                    /\ UploadLock' = NoTask
               ELSE IF num < 0
               THEN \* make(chan UploadPartResponse, sliceNum) panics; the
                    \* deferred Unlock runs while the panic unwinds
                    /\ pc' = [pc EXCEPT ![t] = "panicked"]
                    /\ ret' = ret
                    /\ loc' = [loc EXCEPT ![t] = NoLocals]
                    /\ UploadLock' = NoTask
               ELSE /\ pc' = [pc EXCEPT ![t] = "loop"]
                    /\ ret' = ret
                    /\ loc' = [loc EXCEPT ![t].fileSize = info.Size, ![t].sliceSize = z,
                                          ![t].sliceNum = num]
                    /\ UploadLock' = t
    /\ UNCHANGED <<aux, dl, srvPart, localFile, progress, cancelled, kind, hasFailed, work,
                   uploadRespChan, wire>>

\* Mutant of SnapshotAtDrain: the snapshot is not marked recoverable.
SnapshotAtDrainNotMarked(snap, sliceNum) ==
    [snap EXCEPT !.DoneSlices = MakeStrings(sliceNum)]

\* Upload, lines 204-205: the snapshot before the consumer loop.
SnapshotAtDrain(snap, sliceNum) ==
    [snap EXCEPT !.Recoverable = TRUE, !.DoneSlices = MakeStrings(sliceNum)]

\* The end of Upload's producer loop, lines 203-205.
UploadLoopExit(t, err) ==
    /\ pc' = [pc EXCEPT ![t] = "drain"]
    /\ loc' = [loc EXCEPT ![t].uploadErr = err,
                          ![t].blockList = MakeStrings(loc[t].sliceNum)]
    /\ retSnapshot' = [retSnapshot EXCEPT ![t] = SnapshotAtDrain(@, loc[t].sliceNum)]

\* Upload, lines 167-189: one pass of the producer loop up to the wait for a
\* permit.
UploadLoop(t) ==
    /\ pc[t] = "loop" /\ kind[t] = "Upload"
    /\ IF loc[t].i >= loc[t].sliceNum
       THEN UploadLoopExit(t, loc[t].uploadErr)
       ELSE \E seen \in ReadHasFailed(t), readOk \in BOOLEAN :
            LET n == ReadLen(localFile[t], loc[t].pos, loc[t].sliceSize) IN
            IF seen THEN UploadLoopExit(t, loc[t].uploadErr)
            ELSE IF cancelled[t] THEN UploadLoopExit(t, "ctx")
            ELSE IF ~readOk THEN UploadLoopExit(t, "read")
            ELSE IF n = 0 THEN UploadLoopExit(t, loc[t].uploadErr)
            ELSE /\ pc' = [pc EXCEPT ![t] = "sem"]
                 /\ loc' = [loc EXCEPT ![t].n = n, ![t].offset = loc[t].pos,
                                       ![t].pos = loc[t].pos + n]
                 /\ retSnapshot' = retSnapshot
    /\ UNCHANGED <<aux, dl, srvPart, localFile, progress, uploader, cancelled, UploadLock, kind,
                   hasFailed, work, uploadRespChan, ret, wire>>

\* sem <- 1 and the go statement (lines 190-200, 312-322): the producer gets
\* a permit, starts the worker of slice i with the bytes it read, and counts
\* it.
Admit(t) ==
    /\ pc[t] = "sem"
    /\ PermitFree(t)
    /\ work' = [work EXCEPT ![t][loc[t].i] =
                  [st |-> "run", off |-> loc[t].offset, len |-> loc[t].n]]
    /\ loc' = [loc EXCEPT ![t].i = @ + 1, ![t].uploadSliceNum = @ + 1,
                          ![t].n = 0, ![t].offset = 0]
    /\ pc' = [pc EXCEPT ![t] = "loop"]
    /\ UNCHANGED <<aux, dl, srvPart, localFile, progress, uploader, cancelled, UploadLock, kind,
                   retSnapshot, hasFailed, uploadRespChan, ret, wire>>

\* UploadPartResponse{uploadResp, int64(len(partByte)), err}
PartResponse(k, w, err) ==
    [seq |-> RespPartSeq(k), md5 |-> IF err = "nil" THEN ServerSliceMd5(k) ELSE 0,
     size |-> w.len, err |-> err]

\* TrySuperFile2Upload (lines 449-472): the errors the driver can return
\* when it is called.  While the context is live an attempt succeeds (nil),
\* or all attempts of the budget fail.  Under a cancelled context every
\* request fails, and the driver returns after the first failed attempt:
\* that attempt's own error, or the context's.
TrySuperFile2Upload(t) ==
    IF cancelled[t] THEN {"ctx", "net"} ELSE {"nil", "net"}

\* The worker of slice k (lines 191-197, 313-319): the retry driver, the
\* write of hasFailed, the send on uploadRespChan.
Worker(t, k) ==
    /\ work[t][k].st = "run"
    /\ \E err \in TrySuperFile2Upload(t) :
        LET w   == work[t][k]
            rec == [off |-> w.off, len |-> w.len]
        IN
        /\ wire' = [wire EXCEPT ![t].slices[k] = IF err = "nil" THEN Append(@, rec) ELSE @,
                                ![t].underLock = @ /\ UploadLock = t]
        /\ srvPart' = [srvPart EXCEPT ![t][k] = IF err = "nil" THEN w.len ELSE @]
        /\ work' = [work EXCEPT ![t][k].st = "sent"]
        /\ uploadRespChan' = [uploadRespChan EXCEPT ![t] =
                                Append(@, PartResponse(k, w, err))]
        /\ hasFailed' = [hasFailed EXCEPT ![t] = @ \/ err # "nil"]
    /\ UNCHANGED <<aux, dl, localFile, progress, uploader, cancelled, UploadLock, kind,
                   pc, retSnapshot, loc, ret>>

\* <-sem at the end of the worker (lines 198, 320).
Release(t, k) ==
    /\ work[t][k].st = "sent"
    /\ work' = [work EXCEPT ![t][k] = NoWorker]
    /\ UNCHANGED <<aux, dl, srvPart, localFile, progress, uploader, cancelled, UploadLock, kind,
                   pc, retSnapshot, loc, hasFailed, uploadRespChan, ret, wire>>


\* Mutant of SnapshotAfterSlice: the size counted is the slice size of the
\* plan, not the length sent.
SnapshotAfterSlicePlanned(snap, partResp) ==
    [snap EXCEPT !.DoneSlices[partResp.seq + 1] = partResp.md5,
                 !.DoneSize = @ + snap.SliceSize]

\* Lines 224-226 and 343-344: a successful result is stored at the index
\* its response names and its size is added to DoneSize.
SnapshotAfterSlice(snap, partResp) ==
    [snap EXCEPT !.DoneSlices[partResp.seq + 1] = partResp.md5,
                 !.DoneSize = @ + partResp.size]

\* One pass of the consumer loop (lines 206-228 and 325-346): receive one
\* result; a success is stored at the index the response names.
DrainRecv(t) ==
    /\ pc[t] = "drain"
    /\ loc[t].recv < loc[t].uploadSliceNum
    /\ uploadRespChan[t] # <<>>
    /\ LET partResp == Head(uploadRespChan[t]) IN
        /\ uploadRespChan' = [uploadRespChan EXCEPT ![t] = Tail(@)]
        /\ IF partResp.err # "nil"
           THEN /\ loc' = [loc EXCEPT ![t].recv = @ + 1,
                                      ![t].uploadErr = IF @ = "nil" THEN partResp.err ELSE @]
                /\ retSnapshot' = retSnapshot
           ELSE /\ loc' = [loc EXCEPT ![t].recv = @ + 1,
                                      ![t].blockList = IF kind[t] = "Upload"
                                                       THEN [@ EXCEPT ![partResp.seq + 1] = partResp.md5]
                                                       ELSE @]
                /\ retSnapshot' = [retSnapshot EXCEPT ![t] =
                                     SnapshotAfterSlice(@, partResp)]
    /\ UNCHANGED <<aux, dl, srvPart, localFile, progress, uploader, cancelled, UploadLock, kind, pc,
                   hasFailed, work, ret, wire>>

\* After the consumer loop (lines 229-231 and 347-349): return the error or
\* go on to the commit.
DrainEnd(t) ==
    /\ pc[t] = "drain"
    /\ loc[t].recv >= loc[t].uploadSliceNum
    /\ IF loc[t].uploadErr # "nil"
       THEN Return(t, loc[t].uploadErr, "none", "slices")
       ELSE /\ pc' = [pc EXCEPT ![t] = "commit"]
            /\ UNCHANGED <<ret, UploadLock, loc>>
    /\ UNCHANGED <<aux, dl, srvPart, localFile, uploader, cancelled, kind, retSnapshot,
                   hasFailed, work, uploadRespChan, progress, wire>>

\* The block_list of the create request: blockList in Upload, a copy of
\* retSnapshot.DoneSlices in ResumeUpload (lines 351-352).
CommitBlockList(t) ==
    IF kind[t] = "Upload" THEN loc[t].blockList
    ELSE [k \in 1..loc[t].sliceNum |->
            IF k <= Len(retSnapshot[t].DoneSlices) THEN retSnapshot[t].DoneSlices[k] ELSE 0]

\* Create (lines 511-556) and the return of the call (lines 234-241 and
\* 353-360).  The size sent is GetFileInfo's.
Commit(t) ==
    /\ pc[t] = "commit"
    /\ \E ok \in BOOLEAN :
        LET info == GetFileInfo(uploader[t], localFile[t])
            req  == [uploadid |-> loc[t].uploadID, block_list |-> CommitBlockList(t),
                     size |-> info.Size]
        IN
        /\ ok => ~cancelled[t]
        /\ uploader' = [uploader EXCEPT ![t].FileInfo = info]
        /\ wire' = [wire EXCEPT ![t].create = Append(@, req),
                                ![t].underLock = @ /\ UploadLock = t]
        /\ retSnapshot' = [retSnapshot EXCEPT ![t].Recoverable = IF ok THEN FALSE ELSE @]
        /\ Return(t, IF ok THEN "nil" ELSE "create", IF ok THEN "created" ELSE "none",
                  "commit")
    /\ UNCHANGED <<aux, dl, srvPart, localFile, cancelled, kind, hasFailed, work,
                   uploadRespChan, progress>>

\* The caller closes ctx.Done() of the running call.
Cancel(t) ==
    /\ pc[t] \in {"start", "lock", "rlock", "loop", "sem", "drain", "commit"}
    /\ ~cancelled[t]
    /\ cancelled' = [cancelled EXCEPT ![t] = TRUE]
    /\ UNCHANGED <<aux, dl, srvPart, localFile, uploader, UploadLock, kind, pc,
                   retSnapshot, loc, hasFailed, work, uploadRespChan, ret, progress, wire>>

\* The slices a snapshot names as done.
DoneSet(snap) ==
    {k \in SliceIdx : k < Len(snap.DoneSlices) /\ snap.DoneSlices[k + 1] # 0}

\* Whether the caller may resume: the last call failed and left a snapshot
\* marked recoverable.
Resumable(t) ==
    /\ pc[t] = "returned"
    /\ ret[t].err # "nil"
    /\ retSnapshot[t].Recoverable

\* The caller calls ResumeUpload with the snapshot the last call returned,
\* on the same Uploader or on a new one (NewUploader), with a new context.
\* Since the last call the local file may have been rewritten or touched.
ResumeCall(t) ==
    /\ Resumable(t)
    /\ \E fresh \in BOOLEAN, f \in FilesAfter(localFile[t]) :
        /\ uploader' = [uploader EXCEPT ![t] =
                          IF fresh THEN [SliceSize |-> 0, FileInfo |-> NoFileInfo] ELSE @]
        /\ localFile' = [localFile EXCEPT ![t] = f]
    /\ kind' = [kind EXCEPT ![t] = "ResumeUpload"]
    /\ pc' = [pc EXCEPT ![t] = "rlock"]
    /\ cancelled' = [cancelled EXCEPT ![t] = FALSE]
    /\ ret' = [ret EXCEPT ![t] = NoRet]
    /\ loc' = [loc EXCEPT ![t] = NoLocals]
    /\ hasFailed' = [hasFailed EXCEPT ![t] = FALSE]
    /\ work' = [work EXCEPT ![t] = [k \in SliceIdx |-> NoWorker]]
    /\ uploadRespChan' = [uploadRespChan EXCEPT ![t] = <<>>]
    /\ wire' = [wire EXCEPT ![t] = [NoWire EXCEPT !.had = DoneSet(retSnapshot[t])]]
    /\ UNCHANGED <<aux, dl, UploadLock, retSnapshot, progress, srvPart>>

\* copy(retSnapshot.DoneSlices, snapshot.DoneSlices) into make([]string, n)
CopyStrings(n, src) == [k \in 1..n |-> IF k <= Len(src) THEN src[k] ELSE 0]

\* ResumeUpload, lines 246-282: UploadLock.Lock(), the copy of the snapshot,
\* os.Open, the channels.
ResumeSetup(t) ==
    /\ pc[t] = "rlock" /\ kind[t] = "ResumeUpload"
    /\ LockFree
    /\ \E openOk \in BOOLEAN :
        /\ retSnapshot' = [retSnapshot EXCEPT ![t].DoneSlices =
                              CopyStrings(retSnapshot[t].SliceNum, @)]
        /\ IF openOk
           THEN /\ pc' = [pc EXCEPT ![t] = "loop"]
                /\ ret' = ret
                /\ loc' = [loc EXCEPT ![t].sliceNum = retSnapshot[t].SliceNum,
                                      ![t].sliceSize = retSnapshot[t].SliceSize,
                                      ![t].fileSize = retSnapshot[t].TotalSize,
                                      ![t].uploadID = retSnapshot[t].UploadId]
                /\ UploadLock' = t
           ELSE /\ pc' = [pc EXCEPT ![t] = "returned"]
                /\ ret' = [ret EXCEPT ![t] = [err |-> "open", resp |-> "none", at |-> "setup"]]
                /\ loc' = loc
                /\ UploadLock' = NoTask
    /\ UNCHANGED <<aux, dl, srvPart, localFile, progress, uploader, cancelled, kind, hasFailed,
                   work, uploadRespChan, wire>>

\* The end of ResumeUpload's producer loop.
ResumeLoopExit(t, err) ==
    /\ pc' = [pc EXCEPT ![t] = "drain"]
    /\ loc' = [loc EXCEPT ![t].uploadErr = err]

\* ResumeUpload, lines 283-311: one pass of the producer loop up to the wait
\* for a permit; a slice the snapshot has is skipped.
ResumeLoop(t) ==
    /\ pc[t] = "loop" /\ kind[t] = "ResumeUpload"
    /\ IF loc[t].i >= loc[t].sliceNum
       THEN ResumeLoopExit(t, loc[t].uploadErr)
       ELSE \E seen \in ReadHasFailed(t), readOk \in BOOLEAN :
            LET n == ReadLen(localFile[t], loc[t].pos, loc[t].sliceSize) IN
            IF seen THEN ResumeLoopExit(t, loc[t].uploadErr)
            ELSE IF cancelled[t] THEN ResumeLoopExit(t, "ctx")
            ELSE IF retSnapshot[t].DoneSlices[loc[t].i + 1] # 0
            THEN /\ loc' = [loc EXCEPT ![t].pos = @ + retSnapshot[t].SliceSize,
                                       ![t].i = @ + 1]
                 /\ pc' = pc
            ELSE IF ~readOk THEN ResumeLoopExit(t, "read")
            ELSE IF n = 0 THEN ResumeLoopExit(t, loc[t].uploadErr)
            ELSE /\ pc' = [pc EXCEPT ![t] = "sem"]
                 /\ loc' = [loc EXCEPT ![t].n = n, ![t].offset = loc[t].pos,
                                       ![t].pos = loc[t].pos + n]
    /\ UNCHANGED <<aux, dl, srvPart, localFile, progress, uploader, cancelled, UploadLock, kind,
                   retSnapshot, hasFailed, work, uploadRespChan, ret, wire>>

Next ==
    \E t \in Tasks :
        \/ UploadPreCreate(t)
        \/ UploadSetup(t)
        \/ UploadLoop(t)
        \/ Admit(t)
        \/ \E k \in SliceIdx : Worker(t, k)
        \/ \E k \in SliceIdx : Release(t, k)
        \/ DrainRecv(t)
        \/ DrainEnd(t)
        \/ Commit(t)
        \/ Cancel(t)
        \/ ResumeCall(t)
        \/ ResumeSetup(t)
        \/ ResumeLoop(t)

Spec == Init /\ [][Next]_vars

SpecTwo == InitTwo /\ [][Next]_vars

\* ---------------------------------------------------- download engine
\* Sizes of the download engine are counted in bytes.

\* No Upload or ResumeUpload call is made.
UploadIdle == InitWith({}, Files, ExplicitSliceSizes)

\* Mutant of TotalPartOf: the number of parts is cut down to one more than
\* MaxTotalPart.
TotalPartOfOneMore(fileSize, partSize, preset) ==
    LET n == IF preset = 0 \/ fileSize \div partSize < preset
             THEN CeilDiv(fileSize, partSize)
             ELSE preset
    IN  IF n > MaxTotalPart + 1 THEN MaxTotalPart + 1 ELSE n

\* Download, lines 112-119: the number of parts.  preset is d.TotalPart as
\* the caller left it.
TotalPartOf(fileSize, partSize, preset) ==
    LET n == IF preset = 0 \/ fileSize \div partSize < preset
             THEN CeilDiv(fileSize, partSize)
             ELSE preset
    IN  IF n > MaxTotalPart THEN MaxTotalPart ELSE n

\* Mutant of PartFrom: a part starts on the last byte of the part before.
PartFromOverlap(prevTo) == prevTo

\* 'From' of a part that is not the first one, line 133.
PartFrom(prevTo) == prevTo + 1

\* 'To' of a part that is not the last one, line 136.
PartTo(from, eachSize) == from + eachSize

RECURSIVE PlanLoop(_, _, _)
\* Download, lines 128-143: the plan loop from index Len(js) on, js being
\* the jobs filled in so far.
PlanLoop(js, fileSize, totalPart) ==
    IF Len(js) >= totalPart THEN js
    ELSE LET i    == Len(js)
             eachSize == fileSize \div totalPart
             from == IF i = 0 THEN 0 ELSE PartFrom(js[i].To)
             to   == IF i < totalPart - 1 THEN PartTo(from, eachSize) ELSE fileSize - 1
         IN  PlanLoop(Append(js, [Index |-> i, From |-> from, To |-> to]),
                      fileSize, totalPart)

\* Download, lines 122-143: the plan of totalPart parts.
MakeJobs(fileSize, totalPart) == PlanLoop(<<>>, fileSize, totalPart)

\* snapshot.DoneParts as the plan loop leaves it: From and To of each job and
\* no file path (0 is "").
PlanDoneParts(js) ==
    [k \in 1..Len(js) |-> [From |-> js[k].From, To |-> js[k].To, FilePath |-> 0]]

\* The path of the file tryDownloadPart writes part index to.
PartFilePath(index) == index + 1 + facade.epoch * MaxTotalPart

\* Permits of sem held: workers admitted that have not run <-sem yet.
DlPermits == Cardinality(dlWork.run \cup dlWork.sent)

\* Mutant of DlPermitFree: the producer waits for no permit.
DlPermitFreeAlways == TRUE

\* sem <- 1 goes through only while fewer than cap(sem) permits are held.
DlPermitFree == DlPermits < dlLoc.semCap

\* Mutant of DlReturn: the files of the parts that are done are handed back
\* for removal with every return.
DlReturnWithParts(err, delFiles, at) ==
    /\ dlPc' = "returned"
    /\ dlRet' = [err |-> err, at |-> at,
                 delFiles |-> delFiles \cup
                    ({snapshot.DoneParts[k].FilePath : k \in 1..Len(snapshot.DoneParts)} \ {0})]
    /\ dlLoc' = NoDlLocals

\* A return of the engine call.
DlReturn(err, delFiles, at) ==
    /\ dlPc' = "returned"
    /\ dlRet' = [err |-> err, delFiles |-> delFiles, at |-> at]
    /\ dlLoc' = NoDlLocals

\* Download, lines 108-152: ensureDirExist, the part plan, the channels.
DownloadPlan ==
    /\ dlPc = "start" /\ dlKind = "Download"
    /\ \E dirOk \in BOOLEAN :
        IF ~dirOk
        THEN /\ DlReturn("mkdir", {}, "setup")
             /\ UNCHANGED <<d, snapshot, jobs>>
        ELSE LET n == TotalPartOf(d.FileSize, d.PartSize, d.TotalPart) IN
             /\ d' = [d EXCEPT !.TotalPart = n]
             /\ IF n = 0
                THEN \* fileTotalSize / int64(d.TotalPart) panics
                     /\ dlPc' = "panicked"
                     /\ UNCHANGED <<snapshot, jobs, dlLoc, dlRet>>
                ELSE LET js == MakeJobs(d.FileSize, n) IN
                     /\ jobs' = js
                     /\ snapshot' = [snapshot EXCEPT
                                        !.PartSize = d.FileSize \div n,
                                        !.TotalPart = n,
                                        !.DoneParts = PlanDoneParts(js),
                                        !.Recoverable = TRUE]
                     /\ dlLoc' = [dlLoc EXCEPT !.semCap = Min(d.PartCoroutineNum, Len(js))]
                     /\ dlPc' = "loop"
                     /\ dlRet' = dlRet
    /\ UNCHANGED <<aux, up, quiet, dlKind, dlWork, downloadRespChan, dlHasFailed, dlCancelled, disk>>

\* A racy read of hasFailed by the producer of the engine call.
DlReadHasFailed == {dlHasFailed, FALSE}

\* Download, lines 170-183: one pass of the producer loop up to the wait for
\* a permit.
DownloadLoop ==
    /\ dlPc = "loop" /\ dlKind = "Download"
    /\ IF dlLoc.i >= Len(jobs)
       THEN dlPc' = "drain" /\ dlLoc' = dlLoc
       ELSE \E seen \in DlReadHasFailed :
            IF seen THEN dlPc' = "drain" /\ dlLoc' = dlLoc
            ELSE IF dlCancelled
            THEN dlPc' = "drain" /\ dlLoc' = [dlLoc EXCEPT !.downloadErr = "ctx"]
            ELSE dlPc' = "sem" /\ dlLoc' = dlLoc
    /\ UNCHANGED <<aux, up, quiet, d, snapshot, jobs, dlKind, dlWork, downloadRespChan,
                   dlHasFailed, dlCancelled, disk, dlRet>>

\* sem <- 1 and the go statement (lines 183-193, 313-324): the producer gets
\* a permit, starts the worker of part i and counts it.
DlAdmit ==
    /\ dlPc = "sem"
    /\ DlPermitFree
    /\ dlWork' = [dlWork EXCEPT !.run = @ \cup {dlLoc.i}]
    /\ dlLoc' = [dlLoc EXCEPT !.i = @ + 1,
                              !.downloadPartNum = @ + 1,
                              !.donePartNum = IF dlKind = "ResumeDownload" THEN @ + 1 ELSE @]
    /\ dlPc' = "loop"
    /\ UNCHANGED <<aux, up, quiet, d, snapshot, jobs, dlKind, downloadRespChan, dlHasFailed,
                   dlCancelled, disk, dlRet>>

\* tryDownloadPart (lines 419-445): the errors the driver can return when it
\* is called.  While the context is live an attempt succeeds (nil) or all
\* attempts of the budget fail; under a cancelled context every request
\* fails and the driver returns after the first failed attempt.
TryDownloadPart ==
    IF dlCancelled THEN {"ctx", "net"}
    ELSE IF quiet THEN {"nil"}
    ELSE {"nil", "net"}

\* The worker of part k (lines 184-190, 314-320): the retry driver, the write
\* of hasFailed, the send on downloadRespChan.  A part that succeeded left
\* its file; the file of a part that failed was removed by the driver.
PartWorker(k) ==
    /\ k \in dlWork.run
    /\ \E err \in TryDownloadPart :
        /\ disk' = IF err = "nil" THEN disk \cup {PartFilePath(k)}
                   ELSE disk \ {PartFilePath(k)}
        /\ downloadRespChan' =
              [msgs |-> downloadRespChan.msgs \cup
                          {[Index |-> k,
                            From |-> snapshot.DoneParts[k + 1].From,
                            To |-> snapshot.DoneParts[k + 1].To,
                            failed |-> err # "nil"]},
               firstErr |-> IF downloadRespChan.firstErr = "nil"
                            THEN err ELSE downloadRespChan.firstErr]
        /\ dlHasFailed' = (dlHasFailed \/ err # "nil")
    /\ cut' = cut \ {PartFilePath(k)}
    /\ dlWork' = [run |-> dlWork.run \ {k}, sent |-> dlWork.sent \cup {k}]
    /\ UNCHANGED <<pure, facade, retry, prog, dest, up, quiet, d, snapshot, jobs, dlKind, dlPc, dlLoc,
                   dlCancelled, dlRet>>

\* <-sem at the end of the worker (lines 191, 321).
PartRelease(k) ==
    /\ k \in dlWork.sent
    /\ dlWork' = [dlWork EXCEPT !.sent = @ \ {k}]
    /\ UNCHANGED <<aux, up, quiet, d, snapshot, jobs, dlKind, dlPc, dlLoc, downloadRespChan,
                   dlHasFailed, dlCancelled, disk, dlRet>>

\* One pass of the consumer loop (lines 197-211 and 327-340).  The Part of
\* a failed result names the file of its last attempt when that attempt got
\* as far as creating it (named).
DlDrainRecv ==
    /\ dlPc = "drain"
    /\ dlLoc.recv < dlLoc.downloadPartNum
    /\ \E resp \in downloadRespChan.msgs, named \in BOOLEAN :
        /\ ~resp.failed => named
        /\ downloadRespChan' = [downloadRespChan EXCEPT !.msgs = @ \ {resp}]
        /\ IF resp.failed
           THEN /\ dlLoc' = [dlLoc EXCEPT
                                !.recv = @ + 1,
                                !.downloadErr = IF @ = "nil"
                                                THEN downloadRespChan.firstErr ELSE @,
                                !.delFiles = IF named
                                             THEN @ \cup {PartFilePath(resp.Index)} ELSE @]
                /\ snapshot' = snapshot
           ELSE /\ dlLoc' = [dlLoc EXCEPT !.recv = @ + 1]
                /\ snapshot' = [snapshot EXCEPT
                                  !.DoneParts[resp.Index + 1].FilePath =
                                        PartFilePath(resp.Index),
                                  !.DoneSize = @ + (resp.To - resp.From + 1)]
    /\ UNCHANGED <<aux, up, quiet, d, jobs, dlKind, dlPc, dlWork, dlHasFailed, dlCancelled,
                   disk, dlRet>>

\* After the consumer loop (lines 212-218 and 341-346): return an error or
\* go on to the merge.
DlDrainEnd ==
    /\ dlPc = "drain"
    /\ dlLoc.recv >= dlLoc.downloadPartNum
    /\ LET count == IF dlKind = "Download" THEN dlLoc.downloadPartNum
                    ELSE dlLoc.donePartNum
       IN  IF dlLoc.downloadErr # "nil"
           THEN DlReturn(dlLoc.downloadErr, dlLoc.delFiles, "parts")
           ELSE IF count # d.TotalPart
           THEN DlReturn("mismatch", dlLoc.delFiles, "parts")
           ELSE dlPc' = "merge" /\ UNCHANGED <<dlLoc, dlRet>>
    /\ UNCHANGED <<aux, up, quiet, d, snapshot, jobs, dlKind, dlWork, downloadRespChan,
                   dlHasFailed, dlCancelled, disk>>

\* The files of the parts of a snapshot.
PartFiles(snap) ==
    {snap.DoneParts[k].FilePath : k \in 1..Len(snap.DoneParts)}

\* mergeFileParts, lines 503-511: ensureDirExist and os.Create, which
\* leaves an empty file at the destination whatever was there.  An error
\* is returned by the call with the snapshot as it is.
DlMergeOpen ==
    /\ dlPc = "merge"
    /\ \E e \in {"nil", "mkdir", "create"} :
        IF e = "nil"
        THEN /\ dest' = [touched |-> TRUE, parts |-> <<>>]
             /\ dlPc' = "copy"
             /\ UNCHANGED <<dlLoc, dlRet>>
        ELSE /\ dest' = dest
             /\ DlReturn(e, dlLoc.delFiles, "merge")
    /\ UNCHANGED <<pure, facade, retry, prog, cut, up, quiet, d, snapshot, jobs, dlKind, dlWork,
                   downloadRespChan, dlHasFailed, dlCancelled, disk>>

RECURSIVE MergedSize(_)
\* totalSize of mergeFileParts: the bytes of the ranges appended so far.
MergedSize(parts) ==
    IF parts = <<>> THEN 0
    ELSE LET p == parts[Len(parts)] IN
         MergedSize(SubSeq(parts, 1, Len(parts) - 1)) + (p.To - p.From + 1)

\* Mutant of MergeResult: the merged size is not compared.
MergeResultAnySize(totalSize, fileSize) == "nil"

\* mergeFileParts, lines 540-543: the result after the last part.
MergeResult(totalSize, fileSize) ==
    IF totalSize # fileSize THEN "incomplete" ELSE "nil"

\* The index of the part the merge loop appends after n parts (range parts).
MergeNext(n) == n

\* mergeFileParts, lines 528-543, and the end of the call (lines 231-238 and
\* 362-370): one pass of the loop over the parts, or the end after the last
\* pass.  A pass ends the merge under a cancelled context and when the part
\* file cannot be opened or copied; else all the bytes the part file has are
\* appended to the destination.  After a merge that returns nil the part
\* files are handed back for removal and the snapshot is not recoverable.
DlMergeCopy ==
    /\ dlPc = "copy"
    /\ IF Len(dest.parts) >= Len(snapshot.DoneParts)
       THEN LET err == MergeResult(MergedSize(dest.parts), d.FileSize) IN
            /\ snapshot' = [snapshot EXCEPT !.Recoverable = IF err = "nil" THEN FALSE ELSE @]
            /\ DlReturn(err,
                        IF err = "nil" THEN dlLoc.delFiles \cup PartFiles(snapshot)
                        ELSE dlLoc.delFiles,
                        "merge")
            /\ dest' = dest
       ELSE LET p == snapshot.DoneParts[MergeNext(Len(dest.parts)) + 1] IN
            \E copyOk \in BOOLEAN :
              IF dlCancelled
              THEN /\ DlReturn("ctx", dlLoc.delFiles, "merge")
                   /\ UNCHANGED <<dest, snapshot>>
              ELSE IF p.FilePath \notin disk \/ ~copyOk
              THEN /\ DlReturn("copy", dlLoc.delFiles, "merge")
                   /\ UNCHANGED <<dest, snapshot>>
              ELSE /\ dest' = [dest EXCEPT !.parts =
                                  Append(@, [Index |-> MergeNext(Len(dest.parts)),
                                             From |-> p.From,
                                             To |-> IF p.FilePath \in cut
                                                    THEN p.To - 1 ELSE p.To])]
                   /\ UNCHANGED <<snapshot, dlPc, dlLoc, dlRet>>
    /\ UNCHANGED <<pure, facade, retry, prog, cut, up, quiet, d, jobs, dlKind, dlWork, downloadRespChan,
                   dlHasFailed, dlCancelled, disk>>

\* The caller closes ctx.Done() of the running engine call.
DlCancel ==
    /\ dlPc \in {"start", "rstart", "loop", "sem", "drain", "merge", "copy"}
    /\ ~dlCancelled /\ ~quiet
    /\ dlCancelled' = TRUE
    /\ UNCHANGED <<aux, up, quiet, d, snapshot, jobs, dlKind, dlPc, dlLoc, dlWork,
                   downloadRespChan, dlHasFailed, disk, dlRet>>

\* Whether the caller may resume: the last engine call failed and left the
\* snapshot marked recoverable.
DlResumable ==
    /\ dlPc = "returned"
    /\ dlRet.err # "nil"
    /\ snapshot.Recoverable

\* The caller removes the files the failed call handed back and calls
\* ResumeDownload on a new Downloader of the same file and tier, with a new
\* context.  Since the last call one of the part files may have been lost,
\* or cut short by a byte.
ResumeDownloadCall ==
    /\ DlResumable
    /\ \E lost \in {{}} \cup {{f} : f \in disk}, short \in {{}} \cup {{f} : f \in disk} :
        /\ quiet => lost = {}
        /\ lost = {} \/ short = {}
        /\ quiet => short = {}
        /\ disk' = (disk \ dlRet.delFiles) \ lost
        /\ cut' = (cut \cup short) \cap disk'
    /\ d' = [d EXCEPT !.TotalPart = 0]
    /\ jobs' = <<>>
    /\ dlKind' = "ResumeDownload"
    /\ dlPc' = "rstart"
    /\ dlLoc' = NoDlLocals
    /\ dlRet' = NoDlRet
    /\ dlHasFailed' = FALSE
    /\ dlCancelled' = FALSE
    /\ downloadRespChan' = NoDlChan
    /\ UNCHANGED <<pure, facade, retry, prog, dest, up, quiet, snapshot, dlWork>>

RECURSIVE StatParts(_, _, _)
\* ResumeDownload, lines 277-291: the first k entries of DoneParts after the
\* os.Stat loop, which forgets the files that are gone.
StatParts(k, parts, files) ==
    IF k = 0 THEN <<>>
    ELSE LET p == parts[k] IN
         Append(StatParts(k - 1, parts, files),
                IF p.FilePath # 0 /\ p.FilePath \notin files
                THEN [p EXCEPT !.FilePath = 0] ELSE p)

\* Mutant of LostSize: the parts whose file is gone stay counted.
LostSizeNone(k, parts, files) == 0

RECURSIVE LostSize(_, _, _)
\* ResumeDownload, line 289: the bytes of the first k parts whose file is
\* gone.
LostSize(k, parts, files) ==
    IF k = 0 THEN 0
    ELSE LET p == parts[k] IN
         LostSize(k - 1, parts, files) +
            (IF p.FilePath # 0 /\ p.FilePath \notin files THEN p.To - p.From + 1 ELSE 0)

\* ResumeDownload, lines 243-295: ensureDirExist, the channels, the os.Stat
\* loop over the parts the snapshot has.
ResumeDownloadSetup ==
    /\ dlPc = "rstart" /\ dlKind = "ResumeDownload"
    /\ \E dirOk \in BOOLEAN :
        IF ~dirOk
        THEN /\ DlReturn("mkdir", {}, "setup")
             /\ UNCHANGED <<d, snapshot>>
        ELSE LET n == Len(snapshot.DoneParts)
                 doneSize == snapshot.DoneSize - LostSize(n, snapshot.DoneParts, disk)
             IN
             /\ d' = [d EXCEPT !.TotalPart = snapshot.TotalPart]
             /\ snapshot' = [snapshot EXCEPT
                                !.Recoverable = TRUE,
                                !.DoneParts = StatParts(n, snapshot.DoneParts, disk),
                                !.DoneSize = IF doneSize < 0 THEN 0 ELSE doneSize]
             /\ dlLoc' = [dlLoc EXCEPT
                             !.semCap = Min(d.PartCoroutineNum, snapshot.TotalPart)]
             /\ dlPc' = "loop"
             /\ dlRet' = dlRet
    /\ UNCHANGED <<aux, up, quiet, jobs, dlKind, dlWork, downloadRespChan, dlHasFailed,
                   dlCancelled, disk>>

\* ResumeDownload, lines 296-312: one pass of the producer loop up to the
\* wait for a permit; a part the snapshot has a file of is counted and
\* skipped.
ResumeDownloadLoop ==
    /\ dlPc = "loop" /\ dlKind = "ResumeDownload"
    /\ IF dlLoc.i >= Len(snapshot.DoneParts)
       THEN dlPc' = "drain" /\ dlLoc' = dlLoc
       ELSE \E seen \in DlReadHasFailed :
            IF seen THEN dlPc' = "drain" /\ dlLoc' = dlLoc
            ELSE IF dlCancelled
            THEN dlPc' = "drain" /\ dlLoc' = [dlLoc EXCEPT !.downloadErr = "ctx"]
            ELSE IF snapshot.DoneParts[dlLoc.i + 1].FilePath # 0
            THEN dlPc' = dlPc /\ dlLoc' = [dlLoc EXCEPT !.i = @ + 1, !.donePartNum = @ + 1]
            ELSE dlPc' = "sem" /\ dlLoc' = dlLoc
    /\ UNCHANGED <<aux, up, quiet, d, snapshot, jobs, dlKind, dlWork, downloadRespChan,
                   dlHasFailed, dlCancelled, disk, dlRet>>

NextDownload ==
    \/ DownloadPlan
    \/ DownloadLoop
    \/ DlAdmit
    \/ \E k \in dlWork.run : PartWorker(k)
    \/ \E k \in dlWork.sent : PartRelease(k)
    \/ DlDrainRecv
    \/ DlDrainEnd
    \/ DlMergeOpen
    \/ DlMergeCopy
    \/ DlCancel
    \/ ResumeDownloadCall
    \/ ResumeDownloadSetup
    \/ ResumeDownloadLoop

\* Before a Download call of the engine on the Downloader dd, with a
\* context that is live or cancelled already; the caller has put the file
\* size into the snapshot.
InitDownloadOf(dd, q) ==
    /\ UploadIdle
    /\ d = dd
    /\ snapshot = [EmptyDownloadSnapshot EXCEPT !.TotalSize = dd.FileSize]
    /\ jobs = <<>>
    /\ dlKind = "Download"
    /\ dlPc = "start"
    /\ dlLoc = NoDlLocals
    /\ dlWork = [run |-> {}, sent |-> {}]
    /\ downloadRespChan = NoDlChan
    /\ dlHasFailed = FALSE
    /\ dlCancelled \in BOOLEAN
    /\ disk = {}
    /\ dlRet = NoDlRet
    /\ quiet = q
    /\ AuxIdle

\* The files and part sizes the plan is computed for: the small ones, and
\* the real part size with files of 100 MiB and of more than 100 parts.
PlanFileSizes == (0..MaxPlanFileSize) \cup {250, 10 * PartSizeDefault, 150 * PartSizeDefault}
PlanPartSizes == (1..MaxPlanPartSize) \cup {PartSizeDefault}

InitPlan ==
    \E dd \in [FileSize : PlanFileSizes, TotalPart : 0..MaxPresetTotalPart,
               PartSize : PlanPartSizes,
               PartCoroutineNum : {CoroutineNumDefault, CoroutineNumSvip}] :
        InitDownloadOf(dd, TRUE)

\* The part plan alone: Download up to the start of its producer loop.
SpecPlan == InitPlan /\ [][DownloadPlan]_vars

\* Downloader{} as NewFileDownloader and the setters leave it.
NewDownloader(fileSize, partSize, coroutineNum) ==
    [FileSize |-> fileSize, TotalPart |-> 0, PartSize |-> partSize,
     PartCoroutineNum |-> coroutineNum]

\* The engine runs, with one worker and with five: files of one part and of
\* three parts in any surroundings, and a file of six parts in quiet
\* surroundings.
InitDownload ==
    \/ \E fileSize \in {7, 20}, n \in {CoroutineNumDefault, CoroutineNumSvip} :
          InitDownloadOf(NewDownloader(fileSize, 7, n), FALSE)
    \/ InitDownloadOf(NewDownloader(42, 7, CoroutineNumSvip), TRUE)

SpecDownload == InitDownload /\ [][NextDownload]_vars

\* ------------------------------------------------------- retry drivers
\* The retry drivers run one at a time here, step by step: TrySuperFile2Upload
\* ("slice"), tryDownloadPart ("part"), TryPrepare ("probe") and
\* ensureDirExist ("mkdir").  Sizes are counted in bytes.
RetryKinds == {"slice", "part", "probe", "mkdir"}

\* Mutant of TryNum: every loop makes one pass more.
TryNumOneMore(driver) ==
    CASE driver = "slice" -> 11
      [] driver = "part"  -> 11
      [] driver = "probe" -> 6
      [] driver = "mkdir" -> 4

\* The attempts of a driver's loop: for i := 0; i < N; i++
TryNum(driver) ==
    CASE driver = "slice" -> SliceTryNum
      [] driver = "part"  -> PartTryNum
      [] driver = "probe" -> PrepareTryNum
      [] driver = "mkdir" -> MkdirTryNum

\* The bytes one attempt reports when it runs to its end: UploadByByte
\* reports every byte of the multipart body, which is the slice and its
\* framing; downloadPart reports the bytes of the part.
BodyLen(driver, len) ==
    CASE driver = "slice" -> len + MultipartOverhead
      [] driver = "part"  -> len
      [] OTHER            -> 0

\* doneSize after internalProgressHandler(size): Upload and ResumeUpload cut
\* the counter down to the file size (upload.go 145-148, 259-262), Download
\* and ResumeDownload add and nothing else (download.go 159, 261).
CounterAfter(driver, doneSize, size, fileSize) ==
    IF driver = "slice" /\ doneSize + size > fileSize THEN fileSize
    ELSE doneSize + size

\* The head of the loop: the loop ends after N passes (the driver returns
\* err), else, after the sleep of a pass that is not the first, the attempt
\* of the pass starts.
RetryTop ==
    /\ retry.pc = "top"
    /\ IF retry.i >= TryNum(retry.kind)
       THEN retry' = [retry EXCEPT !.pc = "done"]
       ELSE retry' = [retry EXCEPT !.pc = "attempt",
                                   !.tries = @ + 1,
                                   !.late = IF retry.ok > 0 THEN @ + 1 ELSE @,
                                   !.blind = IF retry.cancelled THEN @ + 1 ELSE @,
                                   !.sent = 0,
                                   !.before = retry.doneSize]
    /\ UNCHANGED <<pure, facade, up, dl, prog, dest, cut>>

\* The running attempt of a slice or part reports n more bytes:
\* partDoneSize += n; progressHandler(n).
RetryReport ==
    /\ retry.pc = "attempt"
    /\ \E n \in 1..(BodyLen(retry.kind, retry.len) - retry.sent) :
        retry' = [retry EXCEPT
                    !.sent = @ + n,
                    !.partDoneSize = @ + n,
                    !.doneSize = CounterAfter(retry.kind, @, n, retry.fileSize)]
    /\ UNCHANGED <<pure, facade, up, dl, prog, dest, cut>>

\* The attempt returns.  It can succeed when it ran to its end under a live
\* context (os.MkdirAll takes no context); the driver then leaves the loop.
\* A failed attempt of a slice or part goes on to the rollback, a failed
\* HEAD probe or mkdir to the next pass.
RetryAttemptEnd ==
    /\ retry.pc = "attempt"
    /\ \E why \in {"nil", "net", "ctx"}, created \in BOOLEAN :
        /\ why = "nil" => /\ retry.sent = BodyLen(retry.kind, retry.len)
                          /\ (retry.kind = "mkdir" \/ ~retry.cancelled)
        /\ why = "ctx" => (retry.cancelled /\ retry.kind # "mkdir")
        \* downloadPart, lines 470-477: the part file is created before the
        \* body is copied, and retPart names it from then on
        /\ created = IF retry.kind = "part" THEN (why = "nil" \/ retry.sent > 0 \/ created)
                      ELSE FALSE
        /\ LET r == [retry EXCEPT
                        !.FilePath = IF retry.kind # "part" THEN @
                                     ELSE IF created THEN retry.tries ELSE 0,
                        !.files = IF created THEN @ \cup {retry.tries} ELSE @]
           IN retry' =
             IF why = "nil"
             THEN [r EXCEPT !.pc = "done", !.ok = retry.tries,
                            !.err = [at |-> 0, why |-> "nil"]]
             ELSE [r EXCEPT
                     !.pc = IF retry.kind \in {"slice", "part"} THEN "failed" ELSE "top",
                     !.i = IF retry.kind \in {"slice", "part"} THEN @ ELSE @ + 1,
                     !.err = [at |-> retry.tries, why |-> why]]
    /\ UNCHANGED <<pure, facade, up, dl, prog, dest, cut>>

\* partDoneSize after the rollback of a failed attempt.
PartDoneSizeReset(partDoneSize) == 0

\* Mutant of FilesAfterRollback: the file of the failed attempt is left.
FilesAfterRollbackKept(files, path) == files

\* tryDownloadPart, lines 434-436: os.Remove(retPart.FilePath) when the
\* failed attempt named a file.
FilesAfterRollback(files, path) == files \ {path}

\* After a failed attempt of a slice or part: the part file is removed,
\* progressHandler(-partDoneSize), partDoneSize = 0, and the loop ends when
\* ctx.Err() != nil.
RetryRollback ==
    /\ retry.pc = "failed"
    /\ retry' = [retry EXCEPT
                   !.files = FilesAfterRollback(@, retry.FilePath),
                   !.doneSize = CounterAfter(retry.kind, @, 0 - retry.partDoneSize,
                                             retry.fileSize),
                   !.partDoneSize = PartDoneSizeReset(@),
                   !.pc = IF retry.cancelled THEN "done" ELSE "top",
                   !.i = IF retry.cancelled THEN @ ELSE @ + 1]
    /\ UNCHANGED <<pure, facade, up, dl, prog, dest, cut>>

\* The caller closes ctx.Done() while the driver runs.
RetryCancel ==
    /\ retry.pc \in {"top", "attempt", "failed"}
    /\ retry.kind # "mkdir"
    /\ ~retry.cancelled
    /\ retry' = [retry EXCEPT !.cancelled = TRUE]
    /\ UNCHANGED <<pure, facade, up, dl, prog, dest, cut>>

\* Download, lines 198-210 (ResumeDownload, 328-339): the consumer loop
\* receives the result of the driver of a part.  The path of a failed part
\* goes on delFiles when it is not empty; the path of a part that succeeded
\* is stored in snapshot.DoneParts.
RetryConsume ==
    /\ retry.pc = "done" /\ retry.kind = "part" /\ ~retry.consumed
    /\ retry' = IF retry.err.why # "nil"
                THEN [retry EXCEPT !.consumed = TRUE,
                                   !.delFiles = IF retry.FilePath # 0
                                                THEN @ \cup {retry.FilePath} ELSE @]
                ELSE [retry EXCEPT !.consumed = TRUE, !.donePath = retry.FilePath]
    /\ UNCHANGED <<pure, facade, up, dl, prog, dest, cut>>

NextRetry ==
    \/ RetryConsume
    \/ RetryTop
    \/ RetryReport
    \/ RetryAttemptEnd
    \/ RetryRollback
    \/ RetryCancel

\* A driver is called, under a context that is live or cancelled already,
\* for a slice or part of 1..MaxRetryLen bytes that is the last one of its
\* file: the bytes before it are counted already.
InitRetry ==
    /\ UploadIdle
    /\ DownloadIdle
    /\ prog = NoProg /\ dest = NoDest /\ cut = {} /\ facade = NoFacade /\ pure = NoPure
    /\ \E driver \in RetryKinds, len \in 1..MaxRetryLen, base \in 0..MaxRetryLen,
          c \in BOOLEAN :
        /\ driver \in {"probe", "mkdir"} => (len = 1 /\ base = 0)
        /\ driver = "mkdir" => ~c
        /\ retry = [NoRetry EXCEPT !.kind = driver, !.pc = "top", !.cancelled = c,
                                   !.len = len, !.base = base, !.doneSize = base,
                                   !.before = base, !.fileSize = base + len]

SpecRetry == InitRetry /\ [][NextRetry]_vars

\* ----------------------------------------------------- progress ticks
\* One transfer with its progress handler: two slices or parts with a driver
\* each, that run side by side (both permits of sem), the merge of a
\* download, and the single stream of DownloadWhole.  Sizes are in bytes.

\* The driver that reports to the handler of a call.
DriverOf(call) == IF call \in {"Upload", "ResumeUpload"} THEN "slice" ELSE "part"

\* if elapsed >= 500 ms || doneSize == total: whether the handler calls
\* progressHandler; the time that went by is not known.
Fires(doneSize, total) == IF doneSize = total THEN {TRUE} ELSE BOOLEAN

\* One call of a handler: the counter moves by size (with the cap of the
\* upload handlers when capped), and when the tick fires progressHandler gets
\* (phase, doneSize, total).
AfterHandler(p, phase, size, capped, fired) ==
    LET ds == CounterAfter(IF capped THEN "slice" ELSE "part", p.doneSize, size, p.total)
        rb == p.rolled \/ size < 0
    IN  [p EXCEPT !.doneSize = ds,
                  !.last[phase] = IF fired THEN ds ELSE @,
                  !.mono = IF fired
                           THEN @ /\ (p.last[phase] = 0 - 1 \/ ds >= p.last[phase] \/ rb)
                           ELSE @,
                  !.ranged = IF fired THEN @ /\ 0 <= ds /\ ds <= p.total ELSE @,
                  !.rolled = IF fired THEN FALSE ELSE rb]

\* The producer starts the driver of unit u, or the driver starts its next
\* attempt.
ProgStart(u) ==
    /\ prog.pc = "transfer"
    /\ prog.unit[u].st = "wait"
    /\ \A v \in 1..Len(prog.unit) : prog.unit[v].st # "dead"
    /\ prog' = [prog EXCEPT !.unit[u].st = "run", !.unit[u].tries = @ + 1]
    /\ UNCHANGED <<pure, facade, up, dl, retry, dest, cut>>

\* The running attempt of unit u reports n more bytes.
ProgReport(u) ==
    /\ prog.pc = "transfer"
    /\ prog.unit[u].st = "run"
    /\ \E n \in 1..(BodyLen(DriverOf(prog.kind), prog.unit[u].len) - prog.unit[u].sent) :
        LET ds == CounterAfter(DriverOf(prog.kind), prog.doneSize, n, prog.total) IN
        \E fired \in Fires(ds, prog.total) :
            prog' = [AfterHandler(prog, 2, n, DriverOf(prog.kind) = "slice", fired)
                        EXCEPT !.unit[u].sent = @ + n, !.unit[u].partDoneSize = @ + n]
    /\ UNCHANGED <<pure, facade, up, dl, retry, dest, cut>>

\* The running attempt of unit u fails and its driver rolls the counter
\* back; the driver tries again while it has attempts left (MaxProgTries of
\* them are followed) and gives up otherwise.
ProgFail(u) ==
    /\ prog.pc = "transfer"
    /\ prog.unit[u].st = "run"
    /\ LET size == 0 - prog.unit[u].partDoneSize
           ds == CounterAfter(DriverOf(prog.kind), prog.doneSize, size, prog.total)
       IN  \E fired \in Fires(ds, prog.total) :
            prog' = [AfterHandler(prog, 2, size, DriverOf(prog.kind) = "slice", fired)
                        EXCEPT !.unit[u].sent = 0, !.unit[u].partDoneSize = 0,
                               !.unit[u].st = IF prog.unit[u].tries < MaxProgTries
                                              THEN "wait" ELSE "dead"]
    /\ UNCHANGED <<pure, facade, up, dl, retry, dest, cut>>

\* The running attempt of unit u ran to its end and succeeds.
ProgOk(u) ==
    /\ prog.pc = "transfer"
    /\ prog.unit[u].st = "run"
    /\ prog.unit[u].sent = BodyLen(DriverOf(prog.kind), prog.unit[u].len)
    /\ prog' = [prog EXCEPT !.unit[u].st = "ok"]
    /\ UNCHANGED <<pure, facade, up, dl, retry, dest, cut>>

\* The end of the transferring phase: with a failed unit the call returns
\* its error; else Upload and ResumeUpload go on to create (which can fail)
\* and return, Download and ResumeDownload set doneSize = 0 and merge.
ProgTransferEnd ==
    /\ prog.pc = "transfer"
    /\ \A u \in 1..Len(prog.unit) : prog.unit[u].st \in {"had", "ok", "dead"}
    /\ IF \E u \in 1..Len(prog.unit) : prog.unit[u].st = "dead"
       THEN prog' = [prog EXCEPT !.pc = "returned", !.err = "net"]
       ELSE IF DriverOf(prog.kind) = "slice"
       THEN \E e \in {"nil", "create"} : prog' = [prog EXCEPT !.pc = "returned", !.err = e]
       ELSE prog' = [prog EXCEPT !.pc = "merge", !.doneSize = 0, !.rolled = FALSE]
    /\ UNCHANGED <<pure, facade, up, dl, retry, dest, cut>>

\* mergeFileParts, one pass of its loop: the next part file is copied and
\* mergeProgressHandler(nw) runs, or the pass fails; after the last part the
\* merge returns (the sizes agree here).
ProgMerge ==
    /\ prog.pc = "merge"
    /\ IF prog.merged = Len(prog.unit)
       THEN prog' = [prog EXCEPT !.pc = "returned"]
       ELSE \E ok \in BOOLEAN :
            IF ok
            THEN LET n == prog.unit[prog.merged + 1].len IN
                 \E fired \in Fires(prog.doneSize + n, prog.total) :
                    prog' = [AfterHandler(prog, 3, n, FALSE, fired) EXCEPT !.merged = @ + 1]
            ELSE prog' = [prog EXCEPT !.pc = "returned", !.err = "merge"]
    /\ UNCHANGED <<pure, facade, up, dl, retry, dest, cut>>

\* DownloadWhole, lines 551-570: the GET request, ensureDirExist and
\* os.Create, which leaves an empty file at the destination.
ProgWholeOpen ==
    /\ prog.pc = "open"
    /\ \E e \in {"nil", "net", "mkdir", "create"} :
        IF e = "nil"
        THEN /\ prog' = [prog EXCEPT !.pc = "whole"]
             /\ dest' = [touched |-> TRUE, parts |-> <<>>]
        ELSE /\ prog' = [prog EXCEPT !.pc = "returned", !.err = e]
             /\ dest' = dest
    /\ UNCHANGED <<pure, facade, up, dl, retry, cut>>

\* resp.Body.Read(buffer), line 585: the numbers of bytes a read may return
\* when remaining bytes of the body are left.  Near the end of the body any
\* number, before that a full buffer.
ReadLens(remaining) ==
    IF remaining <= 2 * MaxRetryLen THEN 1..remaining
    ELSE {Min(remaining, WholeBufferLen)}

\* DownloadWhole, lines 584-592: nr bytes of the body are read and written
\* and internalProgressHandler(2, doneSize, totalSize) runs.
ProgWholeRead ==
    /\ prog.pc = "whole"
    /\ \E nr \in ReadLens(prog.total - prog.doneSize) :
        \E fired \in Fires(prog.doneSize + nr, prog.total) :
            /\ prog' = AfterHandler(prog, 2, nr, FALSE, fired)
            /\ dest' = [dest EXCEPT !.parts = Append(@, [From |-> prog.doneSize,
                                                          To |-> prog.doneSize + nr - 1])]
    /\ UNCHANGED <<pure, facade, up, dl, retry, cut>>

\* The error DownloadWhole returns when Read returns readErr, lines 593-600:
\* io.EOF and io.ErrUnexpectedEOF end the loop and the call returns nil.
WholeReadResult(readErr) ==
    IF readErr \in {"EOF", "ErrUnexpectedEOF"} THEN "nil" ELSE readErr

\* DownloadWhole, lines 593-600: Read returns an error.  The body ends with
\* io.EOF after Content-Length bytes and with io.ErrUnexpectedEOF when the
\* connection closes before that; other errors are the network's; a failed
\* write returns its error as well.
ProgWholeEnd ==
    /\ prog.pc = "whole"
    /\ \E readErr \in {"EOF", "ErrUnexpectedEOF", "net"} :
        /\ readErr = "EOF" <=> prog.doneSize = prog.total
        /\ prog' = [prog EXCEPT !.pc = "returned", !.err = WholeReadResult(readErr)]
    /\ UNCHANGED <<pure, facade, up, dl, retry, dest, cut>>

NextProgress ==
    \/ \E u \in 1..2 : ProgStart(u)
    \/ \E u \in 1..2 : ProgReport(u)
    \/ \E u \in 1..2 : ProgFail(u)
    \/ \E u \in 1..2 : ProgOk(u)
    \/ ProgTransferEnd
    \/ ProgMerge
    \/ ProgWholeOpen
    \/ ProgWholeRead
    \/ ProgWholeEnd

\* A slice or part that waits for its driver.
NewUnit(len) == [st |-> "wait", len |-> len, sent |-> 0, partDoneSize |-> 0, tries |-> 0]

\* A transfer of a file of two slices or parts of 1..MaxRetryLen bytes each
\* starts: from nothing, with the first one done already by the call the
\* snapshot comes from (doneSize starts at the snapshot's DoneSize), or as a
\* single stream.
InitProgress ==
    /\ UploadIdle
    /\ DownloadIdle
    /\ retry = NoRetry /\ dest = NoDest /\ cut = {} /\ facade = NoFacade /\ pure = NoPure
    /\ \E call \in {"Upload", "ResumeUpload", "Download", "ResumeDownload", "DownloadWhole"},
          l1 \in 1..MaxRetryLen, l2 \in 1..MaxRetryLen :
        LET resumed == call \in {"ResumeUpload", "ResumeDownload"} IN
        prog = [NoProg EXCEPT
                  !.kind = call,
                  !.pc = IF call = "DownloadWhole" THEN "open" ELSE "transfer",
                  !.total = l1 + l2,
                  !.doneSize = IF resumed THEN l1 ELSE 0,
                  !.unit = IF call = "DownloadWhole" THEN <<>>
                           ELSE <<[NewUnit(l1) EXCEPT !.st = IF resumed THEN "had" ELSE "wait"],
                                  NewUnit(l2)>>]

SpecProgress == InitProgress /\ [][NextProgress]_vars

\* -------------------------------------------------------------- facade
\* The Download call of the facade Downloader, on top of the engine.

\* Mutant of SingleStream: a file of exactly one part size is downloaded in
\* parts.
SingleStreamBelow(supportRange, fileSize, partSize) ==
    ~supportRange \/ fileSize < partSize

\* Download, line 92: whether the file is fetched as a single stream.
SingleStream(supportRange, fileSize, partSize) ==
    ~supportRange \/ fileSize <= partSize

\* Download, lines 76-83: the Downloader after NewFileDownloader and the
\* setters, for the VIP type UserInfo reported (0 when it failed).
FacadeDownloader(vipType, fileSize) ==
    IF vipType = 2 THEN NewDownloader(fileSize, PartSizeSvip, CoroutineNumSvip)
    ELSE NewDownloader(fileSize, PartSizeDefault, CoroutineNumDefault)

\* The sizes HEAD reports in the calls that are followed: small files, a
\* file of one part size, of one byte more, and of three part sizes.
FacadeFileSizes(partSize) ==
    (0..MaxFileSize) \cup {partSize, partSize + 1, 3 * partSize}

\* Download, lines 59-104: the checks, GetDownloadLinkInfo, UserInfo,
\* TryPrepare, and the choice of the path up to the call of DownloadWhole
\* or of the engine's Download, for the VIP types, the range support and the
\* file sizes (all, or a file of one part size and a byte only) looked at.
FacadeDownloadOf(vipTypes, ranges, allSizes) ==
    /\ facade.pc = "start"
    /\ \E e \in {"nil", "empty", "link", "head"} :
        IF e # "nil"
        THEN /\ facade' = [facade EXCEPT !.pc = "returned", !.err = e]
             /\ UNCHANGED <<d, snapshot, dlKind, dlPc, quiet, prog>>
        ELSE \E vipType \in vipTypes, supportRange \in ranges :
             \E fileSize \in IF allSizes
                              THEN FacadeFileSizes(FacadeDownloader(vipType, 0).PartSize)
                              ELSE {FacadeDownloader(vipType, 0).PartSize + 1} :
                LET downloader == FacadeDownloader(vipType, fileSize) IN
                /\ d' = downloader
                /\ quiet' = FALSE
                /\ IF SingleStream(supportRange, downloader.FileSize, downloader.PartSize)
                   THEN /\ snapshot' = [snapshot EXCEPT
                                           !.TotalSize = downloader.FileSize,
                                           !.PartSize = downloader.FileSize,
                                           !.TotalPart = 1]
                        /\ prog' = [NoProg EXCEPT !.kind = "DownloadWhole", !.pc = "open",
                                                  !.total = downloader.FileSize]
                        /\ facade' = [facade EXCEPT !.pc = "whole",
                                                    !.supportRange = supportRange,
                                                    !.VipType = vipType,
                                                    !.FileMd5 = 1]
                        /\ UNCHANGED <<dlKind, dlPc>>
                   ELSE /\ snapshot' = [snapshot EXCEPT !.TotalSize = downloader.FileSize]
                        /\ dlKind' = "Download"
                        /\ dlPc' = "start"
                        /\ facade' = [facade EXCEPT !.pc = "engine",
                                                    !.supportRange = supportRange,
                                                    !.VipType = vipType,
                                                    !.FileMd5 = 1]
                        /\ prog' = prog
    /\ UNCHANGED <<pure, up, retry, dest, cut, jobs, dlLoc, dlWork, downloadRespChan, dlHasFailed,
                   dlCancelled, disk, dlRet>>

FacadeDownload == FacadeDownloadOf(0..2, BOOLEAN, TRUE)

\* Download, lines 95-101: DownloadWhole returned.
FacadeWholeReturn ==
    /\ facade.pc = "whole"
    /\ prog.pc = "returned"
    /\ snapshot' = [snapshot EXCEPT !.DoneSize = IF prog.err = "nil" THEN d.FileSize ELSE @]
    /\ facade' = [facade EXCEPT !.pc = "returned", !.err = prog.err]
    /\ UNCHANGED <<pure, up, retry, prog, dest, cut, quiet, d, jobs, dlKind, dlPc, dlLoc, dlWork,
                   downloadRespChan, dlHasFailed, dlCancelled, disk, dlRet>>

\* Download, lines 104-111: the engine's Download returned; the deferred
\* RemovePartFiles removes the files it handed back.
FacadeEngineReturn ==
    /\ facade.pc = "engine"
    /\ dlPc = "returned"
    /\ disk' = disk \ dlRet.delFiles
    /\ cut' = cut \ dlRet.delFiles
    /\ facade' = [facade EXCEPT !.pc = "returned", !.err = dlRet.err]
    /\ UNCHANGED <<pure, up, retry, prog, dest, quiet, d, snapshot, jobs, dlKind, dlPc, dlLoc,
                   dlWork, downloadRespChan, dlHasFailed, dlCancelled, dlRet>>

NextFacade ==
    \/ FacadeDownload
    \/ ProgWholeOpen
    \/ ProgWholeRead
    \/ ProgWholeEnd
    \/ FacadeWholeReturn
    \/ DownloadPlan
    \/ DownloadLoop
    \/ DlAdmit
    \/ \E k \in dlWork.run : PartWorker(k)
    \/ \E k \in dlWork.sent : PartRelease(k)
    \/ DlDrainRecv
    \/ DlDrainEnd
    \/ DlMergeOpen
    \/ DlMergeCopy
    \/ DlCancel
    \/ FacadeEngineReturn

\* Before a Download call of the facade.
InitFacade ==
    /\ UploadIdle
    /\ DownloadIdle
    /\ retry = NoRetry /\ prog = NoProg /\ dest = NoDest /\ cut = {} /\ pure = NoPure
    /\ facade = [NoFacade EXCEPT !.pc = "start"]

SpecFacade == InitFacade /\ [][NextFacade]_vars

\* ------------------------------------------------- facade ResumeDownload

\* Mutant of FilesFromSnapshot: no file of the snapshot is handed to
\* RemovePartFiles.
FilesFromSnapshotNone(snap) == {}

\* filesFromSnapshot, lines 149-155: the files the parts of a snapshot name.
FilesFromSnapshot(snap) == PartFiles(snap) \ {0}

\* The sizes HEAD reports in a ResumeDownload call: the size of the file the
\* snapshot is of while its MD5 is the same, any of the sizes followed
\* otherwise.
ResumeFileSizes(sameMd5, partSize) ==
    IF sameMd5 THEN {snapshot.TotalSize} ELSE {MaxFileSize, partSize + 1}

\* The caller passes the snapshot of a failed Download to ResumeDownload,
\* lines 115-198: the checks, GetDownloadLinkInfo, UserInfo, TryPrepare, and
\* the choice of the path up to the call of DownloadWhole, of the engine's
\* Download or of the engine's ResumeDownload.  The account is of VIP type
\* 0 or 2 now, as it was in the first call.
FacadeResumeDownload ==
    /\ facade.pc = "returned" /\ facade.call = "Download"
    /\ facade.err # "nil" /\ snapshot.Recoverable
    /\ \E e \in {"nil", "empty", "link", "head"} :
        IF e # "nil"
        THEN /\ facade' = [facade EXCEPT !.call = "ResumeDownload", !.err = e,
                                         !.epoch = @ + 1]
             /\ UNCHANGED <<d, snapshot, dlKind, dlPc, prog, dlLoc, dlWork, downloadRespChan,
                            dlHasFailed, dlCancelled, dlRet, jobs>>
        ELSE \E vipType \in {0, 2}, fileMd5 \in 1..2, supportRange \in BOOLEAN :
             \E fileSize \in ResumeFileSizes(fileMd5 = facade.FileMd5,
                                             FacadeDownloader(vipType, 0).PartSize) :
                LET downloader == FacadeDownloader(vipType, fileSize)
                    differs == vipType # facade.VipType \/ fileMd5 # facade.FileMd5
                    next == [facade EXCEPT !.call = "ResumeDownload", !.err = "nil",
                                           !.supportRange = supportRange,
                                           !.oldFiles = PartFiles(snapshot) \ {0},
                                           !.mismatch = differs,
                                           !.epoch = @ + 1]
                IN
                /\ d' = downloader
                /\ jobs' = <<>>
                /\ dlLoc' = NoDlLocals
                /\ dlWork' = [run |-> {}, sent |-> {}]
                /\ downloadRespChan' = NoDlChan
                /\ dlHasFailed' = FALSE
                /\ dlCancelled' = FALSE
                /\ dlRet' = NoDlRet
                /\ IF SingleStream(supportRange, downloader.FileSize, downloader.PartSize)
                   THEN /\ snapshot' = [snapshot EXCEPT
                                           !.Recoverable = FALSE,
                                           !.DoneSize = 0,
                                           !.TotalSize = downloader.FileSize,
                                           !.PartSize = downloader.FileSize,
                                           !.TotalPart = 1,
                                           !.DoneParts = <<>>]
                        /\ prog' = [NoProg EXCEPT !.kind = "DownloadWhole", !.pc = "open",
                                                  !.total = downloader.FileSize]
                        /\ facade' = [next EXCEPT !.pc = "rwhole",
                                                  !.VipType = vipType, !.FileMd5 = fileMd5,
                                                  !.delFiles = FilesFromSnapshot(snapshot)]
                        /\ dlKind' = "off" /\ dlPc' = "off"
                   ELSE IF differs
                   THEN /\ snapshot' = [snapshot EXCEPT
                                           !.Recoverable = FALSE,
                                           !.DoneSize = 0,
                                           !.TotalSize = downloader.FileSize,
                                           !.PartSize = 0,
                                           !.TotalPart = 0,
                                           !.DoneParts = <<>>]
                        /\ facade' = [next EXCEPT !.pc = "revert",
                                                  !.VipType = vipType, !.FileMd5 = fileMd5,
                                                  !.delFiles = FilesFromSnapshot(snapshot)]
                        /\ dlKind' = "Download" /\ dlPc' = "start"
                        /\ prog' = NoProg
                   ELSE /\ snapshot' = snapshot
                        /\ facade' = [next EXCEPT !.pc = "rengine", !.delFiles = {}]
                        /\ dlKind' = "ResumeDownload" /\ dlPc' = "rstart"
                        /\ prog' = NoProg
    /\ UNCHANGED <<pure, up, retry, dest, cut, quiet, disk>>

\* ResumeDownload, lines 156-158 and 174-205: the path that was taken
\* returned, and the deferred RemovePartFiles removes the files of delFiles.
FacadeResumeReturn ==
    /\ facade.call = "ResumeDownload"
    /\ \/ facade.pc = "rwhole" /\ prog.pc = "returned"
       \/ facade.pc \in {"revert", "rengine"} /\ dlPc = "returned"
    /\ LET err == IF facade.pc = "rwhole" THEN prog.err ELSE dlRet.err
           delFiles == IF facade.pc = "rwhole" THEN facade.delFiles
                       ELSE facade.delFiles \cup dlRet.delFiles
       IN  /\ snapshot' = [snapshot EXCEPT
                              !.DoneSize = IF facade.pc = "rwhole" /\ err = "nil"
                                           THEN d.FileSize ELSE @]
           /\ disk' = disk \ delFiles
           /\ cut' = cut \ delFiles
           /\ facade' = [facade EXCEPT !.pc = "returned", !.err = err,
                                       !.delFiles = delFiles]
    /\ UNCHANGED <<pure, up, retry, prog, dest, quiet, d, jobs, dlKind, dlPc, dlLoc, dlWork,
                   downloadRespChan, dlHasFailed, dlCancelled, dlRet>>

\* The Download call a ResumeDownload call is followed after: of a file of
\* two parts on a server with range support.
FacadeDownloadFirst == FacadeDownloadOf({0, 2}, {TRUE}, FALSE)

NextFacadeResume ==
    \/ FacadeDownloadFirst
    \/ ProgWholeOpen
    \/ ProgWholeRead
    \/ ProgWholeEnd
    \/ DownloadPlan
    \/ DownloadLoop
    \/ DlAdmit
    \/ \E k \in dlWork.run : PartWorker(k)
    \/ \E k \in dlWork.sent : PartRelease(k)
    \/ DlDrainRecv
    \/ DlDrainEnd
    \/ DlMergeOpen
    \/ DlMergeCopy
    \/ DlCancel
    \/ FacadeEngineReturn
    \/ FacadeResumeDownload
    \/ ResumeDownloadSetup
    \/ ResumeDownloadLoop
    \/ FacadeResumeReturn

SpecFacadeResume == InitFacade /\ [][NextFacadeResume]_vars

\* ------------------------------------------------------- GetSliceSize
\* GetSliceSize on its own, for every Uploader.SliceSize the caller may have
\* set, file size, VIP type and outcome of account.UserInfo.

InitGetSliceSize ==
    /\ UploadIdle
    /\ DownloadIdle
    /\ retry = NoRetry /\ prog = NoProg /\ dest = NoDest /\ cut = {} /\ facade = NoFacade
    /\ \E z \in ExplicitSliceSizes, fileSize \in 0..(SliceSizeSvip + MaxFileSize),
          vip \in VipTypes, lookupOk \in BOOLEAN :
        pure = [NoPure EXCEPT !.op = "GetSliceSize",
                              !.in = [SliceSize |-> z, fileSize |-> fileSize,
                                      vip |-> vip, lookupOk |-> lookupOk]]

\* u.GetSliceSize(fileSize), lines 559-592: the size returned and
\* u.SliceSize afterwards.
CallGetSliceSize ==
    /\ pure.op = "GetSliceSize" /\ ~pure.done
    /\ LET u == [SliceSize |-> pure.in.SliceSize, FileInfo |-> NoFileInfo] IN
       pure' = [pure EXCEPT
                  !.done = TRUE,
                  !.out = [sliceSize |-> GetSliceSize(u, pure.in.fileSize, pure.in.vip,
                                                      pure.in.lookupOk),
                           SliceSize |-> SliceSizeCached(u, pure.in.fileSize, pure.in.vip,
                                                         pure.in.lookupOk)]]
    /\ UNCHANGED <<up, dl, retry, prog, dest, cut, facade>>

SpecGetSliceSize == InitGetSliceSize /\ [][CallGetSliceSize]_vars

\* -------------------------------------------------------- NewUploader
\* A path is a sequence of characters; a character is written by its name:
\* "bs" is the backslash, "nul" the byte 0, "vt" the byte 11, "0" the digit
\* zero and "a" any character no rule is about.
MaxPathLen == 3

PathChars == {"bs", "?", ":", "nul", "vt", "0", "a"}

Paths == UNION {[1..n -> PathChars] : n \in 0..MaxPathLen}

\* strings.Replace(s, old, "", -1): every occurrence of old, found from the
\* left and not overlapping the one before, is dropped.
RECURSIVE Replace(_, _)
Replace(s, old) ==
    IF Len(s) < Len(old) THEN s
    ELSE IF SubSeq(s, 1, Len(old)) = old
         THEN Replace(SubSeq(s, Len(old) + 1, Len(s)), old)
         ELSE <<Head(s)>> \o Replace(Tail(s), old)

\* The list of line 691 as the Go compiler reads its literals: "\\\\" is
\* two backslashes, "\\0" a backslash and the digit zero, "\\x0B" a
\* backslash and the characters x, 0, B.
specialChars ==
    << <<"bs", "bs">>, <<"?">>, <<"|">>, <<"dq">>, <<">">>, <<"<">>, <<":">>, <<"*">>,
       <<"tab">>, <<"lf">>, <<"cr">>, <<"bs", "0">>, <<"bs", "x", "0", "B">> >>

RECURSIVE ReplaceEach(_, _)
ReplaceEach(s, olds) ==
    IF olds = <<>> THEN s ELSE ReplaceEach(Replace(s, Head(olds)), Tail(olds))

\* handleSpecialChar, lines 689-703.
handleSpecialChar(char) == ReplaceEach(char, specialChars)

InitNewUploader ==
    /\ UploadIdle
    /\ DownloadIdle
    /\ retry = NoRetry /\ prog = NoProg /\ dest = NoDest /\ cut = {} /\ facade = NoFacade
    /\ \E path \in Paths : pure = [NoPure EXCEPT !.op = "NewUploader", !.in = path]

\* NewUploader, lines 84-90: out is Uploader.Path.
NewUploader ==
    /\ pure.op = "NewUploader" /\ ~pure.done
    /\ pure' = [pure EXCEPT !.done = TRUE, !.out = handleSpecialChar(pure.in)]
    /\ UNCHANGED <<up, dl, retry, prog, dest, cut, facade>>

SpecNewUploader == InitNewUploader /\ [][NewUploader]_vars

\* ------------------------------------------------------ upload properties
RECURSIVE SumOver(_, _)
\* The sum of f over the finite set S.
SumOver(f, S) ==
    IF S = {} THEN 0
    ELSE LET x == CHOOSE y \in S : TRUE IN f[x] + SumOver(f, S \ {x})

\* The call of task t returned success after the create request.
Committed(t) ==
    pc[t] = "returned" /\ ret[t].err = "nil" /\ ret[t].at = "commit"

\* C1: a successful Upload without dedup of a file of S > 0 units with slice
\* size Z > 0 has uploaded exactly n = ceil(S/Z) slices, partseq 0..n-1, each
\* succeeding exactly once, slice i carrying the bytes from i*Z up to
\* min((i+1)*Z, S), so that the lengths add up to S.
C1_UploadSlices ==
    \A t \in Tasks :
        (Committed(t) /\ kind[t] = "Upload"
            /\ localFile[t].size > 0 /\ retSnapshot[t].SliceSize > 0) =>
        LET S == localFile[t].size
            Z == retSnapshot[t].SliceSize
            sent == {k \in SliceIdx : wire[t].slices[k] # <<>>}
        IN  /\ \E n \in 1..S : /\ (n - 1) * Z < S
                               /\ S <= n * Z
                               /\ sent = 0..(n - 1)
            /\ \A k \in sent :
                 wire[t].slices[k] = <<[off |-> k * Z, len |-> Min(Z, S - k * Z)]>>
            /\ SumOver([k \in sent |-> wire[t].slices[k][1].len], sent) = S

\* An Upload of three units in slices of two has returned success: two
\* slices, the last one shorter.
C1_Witness ==
    \E t \in Tasks :
        /\ Committed(t) /\ kind[t] = "Upload"
        /\ localFile[t].size = 3 /\ retSnapshot[t].SliceSize = 2
        /\ Len(wire[t].slices[1]) = 1

\* C4: at most two slice uploads hold a permit at any moment; a worker is
\* started only by the producer taking a permit while fewer than two are
\* held, so with both permits held the producer waits for a release.
C4_AtMostTwoInFlight ==
    /\ [](\A t \in Tasks : Permits(t) <= 2)
    /\ [][\A t \in Tasks : \A k \in SliceIdx :
            (work[t][k].st # "run" /\ work'[t][k].st = "run") =>
                /\ pc[t] = "sem"
                /\ Permits(t) < 2
                /\ Permits(t)' = Permits(t) + 1]_vars

\* The producer has read the third slice and waits for a permit while two
\* slice uploads are in flight.
C4_Witness ==
    \E t \in Tasks :
        /\ pc[t] = "sem" /\ loc[t].i = 2
        /\ work[t][0].st = "run" /\ work[t][1].st = "run"

\* The call of task t is inside Phase 2 or Phase 3.
InPhase23(t) == pc[t] \in {"loop", "sem", "drain", "commit"}

\* C5: of the Upload and ResumeUpload calls running in the process at most
\* one is inside Phase 2+3, it is the holder of UploadLock, and every slice
\* upload and create request was sent by the holder of the lock.
C5_OneCallInPhase23 ==
    /\ \A t, u \in Tasks : (InPhase23(t) /\ InPhase23(u)) => t = u
    /\ \A t \in Tasks : InPhase23(t) => UploadLock = t
    /\ \A t \in Tasks : (\E k \in SliceIdx : work[t][k].st = "run") => UploadLock = t
    /\ \A t \in Tasks : wire[t].underLock

\* One call uploads a slice while the ResumeUpload of the other task waits
\* for UploadLock.
C5_Witness ==
    \E t, u \in Tasks :
        /\ t # u
        /\ \E k \in SliceIdx : work[t][k].st = "run"
        /\ pc[u] = "rlock" /\ kind[u] = "ResumeUpload"

\* The local file of task t is not the file its snapshot describes.
FileChanged(t) ==
    \/ FileMd5(localFile[t]) # retSnapshot[t].FileMd5
    \/ localFile[t].mtime # retSnapshot[t].FileModTime

\* C6: in every state where Upload or ResumeUpload has returned success
\* after a commit, the snapshot is not recoverable, done_size and total_size
\* both equal the size of the local file, every done_slices entry is
\* non-empty, and the size sent in the create request is the local file size.
C6_CommittedSnapshot ==
    \A t \in Tasks :
        Committed(t) =>
            /\ ~retSnapshot[t].Recoverable
            /\ retSnapshot[t].DoneSize = retSnapshot[t].TotalSize
            /\ retSnapshot[t].TotalSize = localFile[t].size
            /\ \A k \in 1..Len(retSnapshot[t].DoneSlices) : retSnapshot[t].DoneSlices[k] # 0
            /\ wire[t].create[Len(wire[t].create)].size = localFile[t].size

\* C6 holds for every call on a file that is the one the snapshot describes.
CommittedSnapshotOfSameFile ==
    \A t \in Tasks :
        (Committed(t) /\ ~FileChanged(t)) =>
            /\ ~retSnapshot[t].Recoverable
            /\ retSnapshot[t].DoneSize = retSnapshot[t].TotalSize
            /\ retSnapshot[t].TotalSize = localFile[t].size
            /\ \A k \in 1..Len(retSnapshot[t].DoneSlices) : retSnapshot[t].DoneSlices[k] # 0
            /\ wire[t].create[Len(wire[t].create)].size = localFile[t].size

C8_ResumeUploadsMissing ==
    \A t \in Tasks :
        kind[t] = "ResumeUpload" =>
        LET Z == retSnapshot[t].SliceSize
            missing == (0..(retSnapshot[t].SliceNum - 1)) \ wire[t].had
        IN  /\ wire[t].precreate = <<>>
            /\ \A k \in SliceIdx :
                 /\ work[t][k].st = "run" => (k \in missing /\ work[t][k].off = k * Z)
                 /\ wire[t].slices[k] # <<>> =>
                      /\ k \in missing
                      /\ Len(wire[t].slices[k]) = 1
                      /\ wire[t].slices[k][1].off = k * Z
            /\ wire[t].create # <<>> => \A k \in missing : wire[t].slices[k] # <<>>

\* C8 holds for every ResumeUpload of the file the snapshot describes.
ResumeUploadsMissingOfSameFile ==
    \A t \in Tasks :
        (kind[t] = "ResumeUpload" /\ wire[t].create # <<>> /\ ~FileChanged(t)) =>
            \A k \in (0..(retSnapshot[t].SliceNum - 1)) \ wire[t].had :
                wire[t].slices[k] # <<>>

\* C9: a ResumeUpload on a local file whose MD5 or modification time is not
\* the snapshot's uploads no slice, sends no create request and returns a
\* resume error.
C9_ResumeRejectsChangedFile ==
    \A t \in Tasks :
        (kind[t] = "ResumeUpload" /\ FileChanged(t)) =>
            /\ \A k \in SliceIdx : work[t][k].st = "none" /\ wire[t].slices[k] = <<>>
            /\ wire[t].create = <<>>
            /\ pc[t] = "returned" => ret[t].err = "resume"

\* C10: once precreate has answered return_type 2 the call has returned no
\* error and the server's file record, no slice upload and no create request
\* was sent, the last progress tick is phase 2 with done and total at the
\* server's size, and the snapshot is not recoverable with done_size equal
\* to total_size.
C10_Dedup ==
    \A t \in Tasks :
        (wire[t].precreate # <<>> /\ wire[t].precreate[1].answer = "dedup") =>
        LET size == DedupInfoSize(wire[t].precreate[1].size) IN
            /\ pc[t] = "returned" /\ ret[t].err = "nil" /\ ret[t].resp = "info"
            /\ \A k \in SliceIdx : work[t][k].st = "none" /\ wire[t].slices[k] = <<>>
            /\ wire[t].create = <<>>
            /\ progress[t] = <<2, size, size>>
            /\ ~retSnapshot[t].Recoverable
            /\ retSnapshot[t].DoneSize = retSnapshot[t].TotalSize
            /\ retSnapshot[t].TotalSize = size

\* The precreate of a file of three units was answered with return_type 2.
C10_Witness ==
    \E t \in Tasks :
        /\ wire[t].precreate # <<>> /\ wire[t].precreate[1].answer = "dedup"
        /\ pc[t] = "returned" /\ localFile[t].size = 3
        /\ progress[t] = <<2, 3, 3>>

\* The slices whose upload succeeded, in the running call or in the calls
\* its input snapshot comes from.
Succeeded(t) == wire[t].had \cup {k \in SliceIdx : wire[t].slices[k] # <<>>}

C12_RetryBudget ==
    LET N == CASE retry.kind = "slice" -> 10
               [] retry.kind = "part"  -> 10
               [] retry.kind = "probe" -> 5
               [] retry.kind = "mkdir" -> 3
               [] OTHER                -> 0
    IN  /\ retry.tries <= N
        /\ retry.late = 0
        /\ retry.ok > 0 => (retry.pc = "done" /\ retry.err.why = "nil")
        /\ (retry.pc = "done" /\ retry.ok = 0) =>
              (retry.err.why # "nil" /\ retry.err.at = retry.tries)
        /\ (retry.pc = "done" /\ retry.ok = 0 /\ ~retry.cancelled) =>
              retry.tries = N

\* TrySuperFile2Upload has returned the error of its tenth attempt.
C12_Witness ==
    /\ retry.kind = "slice" /\ retry.pc = "done"
    /\ retry.tries = 10 /\ retry.ok = 0
    /\ retry.err = [at |-> 10, why |-> "net"]

\* C13: TrySuperFile2Upload and tryDownloadPart start no attempt, the first
\* one included, once the context is cancelled, and a driver that returns
\* under a cancelled context without a success returns the context's error.
C13_CancelBeforeEveryAttempt ==
    retry.kind \in {"slice", "part"} =>
        /\ retry.blind = 0
        /\ (retry.pc = "done" /\ retry.cancelled /\ retry.ok = 0) =>
              retry.err.why = "ctx"

\* What the drivers do about cancellation: the context is looked at after a
\* failed attempt only, so at most one attempt starts under a cancelled
\* context and its failure ends the loop.
CancelStopsAfterOneAttempt ==
    retry.kind \in {"slice", "part"} =>
        /\ retry.blind <= 1
        /\ retry.blind = 1 => retry.pc \in {"attempt", "failed", "done"}

\* The last attempt of the driver failed and its rollback has run.
RolledBack ==
    retry.pc \in {"top", "done"} /\ retry.tries > 0 /\ retry.ok = 0

\* C14: after a failed attempt of a slice or part the rollback leaves the
\* progress counter at the value it had when the attempt started, so that a
\* slice or part that succeeds in the end has added its own bytes and no
\* more: the counter of the last part of a download ends at file_size.
C14_RollbackExact ==
    retry.kind \in {"slice", "part"} =>
        /\ RolledBack => retry.doneSize = retry.before
        /\ (retry.pc = "done" /\ retry.ok > 0) =>
              /\ retry.doneSize = retry.base + retry.len
              /\ retry.doneSize = retry.fileSize

\* C14 holds for the parts of a download.
RollbackExactForParts ==
    retry.kind = "part" =>
        /\ RolledBack => retry.doneSize = retry.before
        /\ (retry.pc = "done" /\ retry.ok > 0) =>
              /\ retry.doneSize = retry.base + retry.len
              /\ retry.doneSize = retry.fileSize

\* For a slice of an upload the counter is right once the slice has
\* succeeded, whatever the rollbacks did before.
SliceCountedOnceAtTheEnd ==
    (retry.kind = "slice" /\ retry.pc = "done" /\ retry.ok > 0) =>
        retry.doneSize = retry.fileSize

\* C24: Upload and ResumeUpload send the create request at most once in a
\* call, only after precreate (in Upload) and after every slice upload that
\* was admitted has ended in success, with block_list[i] the MD5 the server
\* returned for slice i, in partseq order; when the create request fails the
\* call returns the error without a second create, and the snapshot stays
\* recoverable.
C24_CommitOnce ==
    /\ [][\A t \in Tasks : wire'[t].create # wire[t].create /\ pc[t] = "commit" =>
            LET req == wire'[t].create[Len(wire'[t].create)] IN
            /\ wire[t].create = <<>> /\ Len(wire'[t].create) = 1
            /\ kind[t] = "Upload" => wire[t].precreate # <<>>
            /\ loc[t].uploadErr = "nil"
            /\ \A k \in SliceIdx : work[t][k].st # "run"
            /\ uploadRespChan[t] = <<>>
            /\ Len(req.block_list) = loc[t].sliceNum
            /\ \A i \in 1..Len(req.block_list) : req.block_list[i] = ServerSliceMd5(i - 1)
            /\ pc'[t] = "returned"
            /\ ret'[t].err # "nil" => retSnapshot'[t].Recoverable]_vars
    /\ [](\A t \in Tasks : /\ Len(wire[t].create) <= 1
                           /\ wire[t].create # <<>> => pc[t] = "returned")

\* C24 holds of every call on the file its snapshot describes.
CommitOnceOfSameFile ==
    [][\A t \in Tasks : wire'[t].create # wire[t].create /\ pc[t] = "commit" =>
            LET req == wire'[t].create[Len(wire'[t].create)] IN
            /\ wire[t].create = <<>> /\ Len(wire'[t].create) = 1
            /\ kind[t] = "Upload" => wire[t].precreate # <<>>
            /\ loc[t].uploadErr = "nil"
            /\ \A k \in SliceIdx : work[t][k].st # "run"
            /\ uploadRespChan[t] = <<>>
            /\ Len(req.block_list) = loc[t].sliceNum
            /\ ~FileChanged(t) =>
                  \A i \in 1..Len(req.block_list) : req.block_list[i] = ServerSliceMd5(i - 1)
            /\ pc'[t] = "returned"
            /\ ret'[t].err # "nil" => retSnapshot'[t].Recoverable]_vars

\* The slice size of a VIP tier: 4 MiB, 16 MiB and 32 MiB, in units of 2 MiB.
TierT(vip) ==
    IF vip = 1 THEN SliceSizeVip ELSE IF vip = 2 THEN SliceSizeSvip ELSE SliceSizeFree

\* C25: GetSliceSize returns the SliceSize the caller set when one is set
\* (> 0); else it returns min(T, file_size), T being 4 MiB for VIP tier 0,
\* 16 MiB for tier 1 and 32 MiB for tier 2, so that a slice size that comes
\* from the tier is never more than the file size.
C25_GetSliceSize ==
    pure.op = "GetSliceSize" /\ pure.done =>
        pure.out.sliceSize = IF pure.in.SliceSize > 0 THEN pure.in.SliceSize
                             ELSE Min(TierT(pure.in.vip), pure.in.fileSize)

\* C25 holds of the calls in which account.UserInfo answers.
SliceSizeOfTheTier ==
    pure.op = "GetSliceSize" /\ pure.done /\ pure.in.lookupOk =>
        pure.out.sliceSize = IF pure.in.SliceSize > 0 THEN pure.in.SliceSize
                             ELSE Min(TierT(pure.in.vip), pure.in.fileSize)

\* The characters the remote service forbids in a path.
ForbiddenChars ==
    {"bs", "?", "|", "dq", ">", "<", ":", "*", "tab", "lf", "cr", "nul", "vt"}

Allowed(c) == c \notin ForbiddenChars

\* C26: the path NewUploader stores has no backslash, ?, |, double quote,
\* >, <, :, *, tab, LF, CR, NUL or VT in it, and is the input with exactly
\* those characters taken out.
C26_PathSanitised ==
    pure.op = "NewUploader" /\ pure.done =>
        /\ \A i \in 1..Len(pure.out) : Allowed(pure.out[i])
        /\ pure.out = SelectSeq(pure.in, Allowed)

\* C26 holds of the paths that have no backslash, NUL or VT in them.
PathWithoutBackslashSanitised ==
    /\ pure.op = "NewUploader" /\ pure.done
    /\ \A i \in 1..Len(pure.in) : pure.in[i] \notin {"bs", "nul", "vt"}
    => /\ \A i \in 1..Len(pure.out) : Allowed(pure.out[i])
       /\ pure.out = SelectSeq(pure.in, Allowed)

\* ---------------------------------------------------- progress properties

\* The transfer returned without error.
ReturnedNil == prog.pc = "returned" /\ prog.err = "nil"

\* The ticks of a call: never a smaller done_size than in the tick before
\* within a phase unless a rollback ran between the two, and after a return
\* without error the last tick of the transferring phase, and of the merging
\* phase when the call merges, came with done_size = total_size.
TicksOf(calls) ==
    prog.kind \in calls =>
        /\ prog.mono
        /\ ReturnedNil =>
              /\ prog.last[2] = prog.total
              /\ prog.kind \in {"Download", "ResumeDownload"} => prog.last[3] = prog.total

\* C15: within each phase the done_size values passed to the progress
\* callback never decrease, except in a tick that follows a retry rollback,
\* and in every transfer that returns without error the last tick of the
\* transferring phase (and of the merging phase of a multi-part download)
\* has done_size equal to total_size, under every interleaving of the
\* workers.
C15_ProgressTicks ==
    TicksOf({"Upload", "ResumeUpload", "Download", "ResumeDownload", "DownloadWhole"})

\* The same holds of the calls that move slices or parts: only the single
\* stream of DownloadWhole breaks it.
TicksOfTheEngines == TicksOf({"Upload", "ResumeUpload", "Download", "ResumeDownload"})

\* ---------------------------------------------------- download properties
\* C2: in every part plan Download builds the first part starts at 0, each
\* part starts one byte after the end of the part before, the last part
\* ends at file_size - 1, the lengths to - from + 1 add up to file_size, and
\* snapshot.DoneParts has the same from and to values.
C2_PartPlan ==
    jobs # <<>> =>
        LET n == Len(jobs) IN
        /\ jobs[1].From = 0
        /\ \A i \in 1..(n - 1) : jobs[i + 1].From = jobs[i].To + 1
        /\ jobs[n].To = d.FileSize - 1
        /\ SumOver([i \in 1..n |-> jobs[i].To - jobs[i].From + 1], 1..n) = d.FileSize
        /\ Len(snapshot.DoneParts) = n
        /\ \A i \in 1..n : /\ snapshot.DoneParts[i].From = jobs[i].From
                           /\ snapshot.DoneParts[i].To = jobs[i].To

\* The plan of a file of 150 default part sizes, cut down to 100 parts.
C2_Witness ==
    /\ Len(jobs) = 100
    /\ d.FileSize = 150 * PartSizeDefault /\ d.PartSize = PartSizeDefault
    /\ jobs[100].To = d.FileSize - 1

\* C3: in Download and in ResumeDownload the workers that were admitted and
\* have not released their permit are never more than PartCoroutineNum,
\* which is 1 or 5.
C3_PartWorkersBound ==
    /\ dlKind \in {"Download", "ResumeDownload"}
    /\ d.PartCoroutineNum \in {1, 5}
    /\ DlPermits <= d.PartCoroutineNum

\* The producer of ResumeDownload waits for a permit while five workers hold
\* all five.
C3_Witness ==
    /\ dlKind = "ResumeDownload" /\ dlPc = "sem"
    /\ d.PartCoroutineNum = 5 /\ Cardinality(dlWork.run) = 5

\* The length of part i of the plan, to - from + 1.
PartLen(i) == jobs[i].To - jobs[i].From + 1

\* C16: in every part plan each_size is file_size / total_part, every part
\* but the last is exactly each_size bytes long and the last one each_size
\* plus the remainder; a file of 100 MiB with parts of 10 MiB is cut into
\* 10 parts of exactly 10 MiB each; snapshot.part_size is the length of the
\* parts that are not the last.
C16_PartLengths ==
    jobs # <<>> =>
        LET n == Len(jobs)
            eachSize == d.FileSize \div n
        IN  /\ \A i \in 1..(n - 1) : PartLen(i) = eachSize
            /\ PartLen(n) = eachSize + (d.FileSize % n)
            /\ \A i \in 1..(n - 1) : snapshot.PartSize = PartLen(i)
            /\ d.FileSize = 10 * PartSizeDefault /\ d.PartSize = PartSizeDefault /\ n = 10
                  => \A i \in 1..n : PartLen(i) = PartSizeDefault

\* What the plan does with the lengths: every part but the last is
\* each_size + 1 bytes long (to = from + each_size), and the last one takes
\* what is left.
PartLengthsOfTheCode ==
    jobs # <<>> =>
        LET n == Len(jobs)
            eachSize == d.FileSize \div n
        IN  /\ snapshot.PartSize = eachSize
            /\ \A i \in 1..(n - 1) : PartLen(i) = eachSize + 1
            /\ PartLen(n) = d.FileSize - (n - 1) * (eachSize + 1)

\* C17: when the caller preset no part count, total_part is
\* min(100, ceil(file_size / part_size)), and whatever was preset the plan
\* never has more than 100 parts.
C17_TotalPart ==
    [][dlPc = "start" /\ dlPc' \in {"loop", "panicked"} =>
          /\ d'.TotalPart <= 100
          /\ Len(jobs') <= 100
          /\ d.TotalPart = 0 =>
                /\ d'.TotalPart = Min(100, CeilDiv(d.FileSize, d.PartSize))
                /\ dlPc' = "loop" => /\ Len(jobs') = d'.TotalPart
                                     /\ snapshot'.TotalPart = d'.TotalPart]_vars

\* A file of 150 part sizes with no preset count got its 100 parts (a
\* preset count of 1 to 3 would have been kept).
C17_Witness ==
    /\ dlPc = "loop"
    /\ CeilDiv(d.FileSize, d.PartSize) = 150
    /\ d.TotalPart = 100 /\ snapshot.TotalPart = 100 /\ Len(jobs) = 100

\* The engine call returned nil.
DlReturnedNil == dlPc = "returned" /\ dlRet.err = "nil"

\* C19: the merge of a multi-part download starts only after all total_part
\* parts were fetched; it appends the part files to the destination in
\* ascending part index; the call fails when the merged byte count differs
\* from file_size; and only after a merge that succeeded is the snapshot not
\* recoverable and every part's temp file on the deletion list.
C19_Merge ==
    /\ dlPc \in {"merge", "copy"} =>
          /\ Len(snapshot.DoneParts) = d.TotalPart
          /\ \A k \in 1..d.TotalPart : snapshot.DoneParts[k].FilePath # 0
          /\ dlLoc.downloadErr = "nil"
    /\ dlPc = "copy" \/ (dlPc = "returned" /\ dlRet.at = "merge") =>
          \A i \in 1..Len(dest.parts) : dest.parts[i].Index = i - 1
    /\ dlPc = "returned" /\ dlRet.at = "merge" /\ MergedSize(dest.parts) # d.FileSize =>
          dlRet.err # "nil"
    /\ dlPc \in {"loop", "sem", "drain", "merge", "copy"} => snapshot.Recoverable
    /\ dlPc = "returned" /\ dlRet.at # "setup" =>
          IF dlRet.err = "nil"
          THEN /\ dlRet.at = "merge"
               /\ ~snapshot.Recoverable
               /\ PartFiles(snapshot) \subseteq dlRet.delFiles
          ELSE /\ snapshot.Recoverable
               /\ dlRet.delFiles \cap PartFiles(snapshot) = {}

\* A resumed download of three parts found a part file one byte short: all
\* three were appended in order and the call failed with the snapshot still
\* recoverable.
C19_Witness ==
    /\ dlKind = "ResumeDownload" /\ dlPc = "returned" /\ dlRet.at = "merge"
    /\ dlRet.err = "incomplete"
    /\ Len(dest.parts) = 3 /\ MergedSize(dest.parts) = d.FileSize - 1
    /\ snapshot.Recoverable

\* The destination holds all the bytes of the remote file in order.
DestComplete(fileSize) ==
    /\ MergedSize(dest.parts) = fileSize
    /\ \A i \in 1..Len(dest.parts) :
          dest.parts[i].From = MergedSize(SubSeq(dest.parts, 1, i - 1))

\* C20: the final file is put together atomically: during and after a
\* download, a merge that fails, is cancelled between parts or ends with a
\* size mismatch included, the destination path holds what it held before
\* (or nothing), or the complete file of file_size bytes, never a part of
\* it.
C20_AtomicDestination ==
    dest.touched => DestComplete(d.FileSize)

\* What holds of the destination: it is complete once the call has returned
\* nil.
DestCompleteAfterSuccess ==
    DlReturnedNil => dest.touched /\ DestComplete(d.FileSize)

\* The parts of a snapshot whose recorded file is not among files.
MissingParts(snap, files) ==
    {k \in 1..Len(snap.DoneParts) :
        snap.DoneParts[k].FilePath # 0 /\ snap.DoneParts[k].FilePath \notin files}

NoPartWork ==
    /\ dlKind = "off" /\ dlPc = "off"
    /\ jobs = <<>> /\ snapshot.DoneParts = <<>>
    /\ dlWork = [run |-> {}, sent |-> {}]
    /\ disk = {}

\* C18: the Download of the facade takes the single-stream path (one GET
\* written straight to the destination, no part workers, no temp files)
\* exactly when the HEAD probe reported no range support or file_size <=
\* part_size, and the multi-part path otherwise; on the single-stream path
\* the snapshot has total_part = 1 and part_size = total_size, and
\* done_size = total_size when the call succeeded.
C18_SingleStreamPath ==
    facade.pc \in {"whole", "engine"} \/ (facade.pc = "returned" /\ d # NoDownloader) =>
        /\ snapshot.TotalSize = d.FileSize
        /\ d.PartSize \in {PartSizeDefault, PartSizeSvip}
        /\ IF ~facade.supportRange \/ d.FileSize <= d.PartSize
           THEN /\ prog.kind = "DownloadWhole"
                /\ NoPartWork
                /\ dest.touched => MergedSize(dest.parts) = prog.doneSize
                /\ snapshot.TotalPart = 1
                /\ snapshot.PartSize = snapshot.TotalSize
                /\ facade.pc = "returned" /\ facade.err = "nil" =>
                      snapshot.DoneSize = snapshot.TotalSize
           ELSE /\ prog = NoProg
                /\ dlKind = "Download"

\* A file of exactly one default part size on a server with range support
\* was fetched as a single stream, and the call returned nil.
C18_Witness ==
    /\ facade.pc = "returned" /\ facade.err = "nil"
    /\ facade.supportRange /\ d.FileSize = PartSizeDefault /\ d.PartSize = PartSizeDefault
    /\ prog.kind = "DownloadWhole" /\ prog.doneSize = PartSizeDefault
    /\ snapshot.TotalPart = 1 /\ snapshot.DoneSize = PartSizeDefault

\* C22: when the file_md5 or the VIP type of now differs from the one in the
\* snapshot, the ResumeDownload of the facade reuses no part of the
\* snapshot: done_size, the part plan and done_parts are reset, every part
\* is downloaded anew, and every temp file the old snapshot named is removed
\* when the call returns, whether the new download succeeded or failed.
C22_RevertOnMismatch ==
    facade.call = "ResumeDownload" /\ facade.mismatch =>
        /\ facade.pc \in {"rwhole", "revert", "returned"}
        /\ dlKind # "ResumeDownload"
        /\ PartFiles(snapshot) \cap facade.oldFiles = {}
        /\ dlWork.run \cup dlWork.sent # {} \/ disk \ facade.oldFiles # {} =>
              dlKind = "Download"
        /\ (facade.pc = "rwhole" /\ prog.pc = "open") \/ (facade.pc = "revert" /\ dlPc = "start") =>
              /\ snapshot.DoneSize = 0
              /\ snapshot.DoneParts = <<>>
              /\ snapshot.TotalPart = IF facade.pc = "rwhole" THEN 1 ELSE 0
        /\ dlPc \in {"merge", "copy"} =>
              \A k \in 1..Len(snapshot.DoneParts) :
                  snapshot.DoneParts[k].FilePath = PartFilePath(k - 1)
        /\ facade.oldFiles \subseteq facade.delFiles
        /\ facade.pc = "returned" => facade.oldFiles \cap disk = {}

\* After a mismatch the new download of two parts failed with one part
\* fetched, and the file the old snapshot named is gone.
C22_Witness ==
    /\ facade.call = "ResumeDownload" /\ facade.mismatch /\ facade.pc = "returned"
    /\ facade.err # "nil" /\ facade.oldFiles # {}
    /\ dlKind = "Download" /\ snapshot.TotalPart = 2
    /\ FilesFromSnapshot(snapshot) # {}
    /\ facade.oldFiles \cap disk = {}

\* A call of the facade returned the error of the engine, which failed while
\* it fetched parts or merged them.
FacadeEngineFailed ==
    /\ facade.pc = "returned" /\ facade.err # "nil"
    /\ dlPc = "returned" /\ dlRet.err # "nil" /\ dlRet.at \in {"parts", "merge"}

RECURSIVE DoneLength(_)
DoneLength(parts) ==
    IF parts = <<>> THEN 0
    ELSE (IF Head(parts).FilePath # 0 THEN Head(parts).To - Head(parts).From + 1 ELSE 0)
         + DoneLength(Tail(parts))

SnapshotConsistent(snap) ==
    /\ Len(snap.DoneParts) = snap.TotalPart
    /\ snap.DoneSize = DoneLength(snap.DoneParts)

\* C27: every snapshot the facade's Download or ResumeDownload returns has
\* as many done_parts as total_part says, and a done_size that is the sum of
\* to - from + 1 over the parts with a file_path, whether the file was
\* fetched in parts, in one stream, or in one stream for want of range
\* support.
C27_SnapshotConsistent ==
    facade.pc = "returned" => SnapshotConsistent(snapshot)

\* C27 holds of the snapshots of the calls that went through the engine's
\* Download or ResumeDownload, or returned before any transfer.
SnapshotOfTheEngineConsistent ==
    facade.pc = "returned" /\ prog.kind # "DownloadWhole" => SnapshotConsistent(snapshot)

\* Task t uploads an empty file and its precreate request was answered
\* without a dedup hit.
ZeroByteUpload(t) ==
    /\ kind[t] = "Upload" /\ localFile[t].size = 0
    /\ wire[t].precreate # <<>> /\ wire[t].precreate[1].answer = "normal"

ZeroByteUploadAsSpecified(t) ==
    /\ pc[t] # "panicked"
    /\ Len(wire[t].precreate) = 1
    /\ \A k \in SliceIdx : wire[t].slices[k] = <<>> /\ work[t][k].st = "none"
    /\ retSnapshot[t].SliceNum = 0
    /\ Len(wire[t].create) <= 1
    /\ Committed(t) => Len(wire[t].create) = 1

\* C28: the upload of a zero-byte file without a dedup hit sends one
\* precreate request, no slice and one create request, with slice_num = 0,
\* and neither fails nor crashes when the slice count is computed.
C28_ZeroByteUpload ==
    \A t \in Tasks : ZeroByteUpload(t) => ZeroByteUploadAsSpecified(t)

\* C28 holds of the uploads whose slice count came out as 0: those with a
\* slice size above 0, and those of a build that converts NaN to 0.
ZeroByteUploadWhereNaNIsZero ==
    \A t \in Tasks : ZeroByteUpload(t) /\ retSnapshot[t].SliceNum >= 0 =>
        ZeroByteUploadAsSpecified(t)

\* The producer of task t leaves its loop with slices left and no failure
\* of a worker, under a cancelled context.
UploadProducerStopsCancelled(t) ==
    /\ cancelled[t] /\ ~hasFailed[t]
    /\ pc[t] = "loop" /\ loc[t].i < loc[t].sliceNum
    /\ pc'[t] = "drain"

DownloadProducerStopsCancelled ==
    /\ dlCancelled /\ ~dlHasFailed
    /\ dlPc = "loop" /\ dlLoc.i < Len(jobs)
    /\ dlPc' = "drain"

\* The producer that met the cancelled context returns its reason.
ReturnsCancellationReason ==
    /\ [][\A t \in Tasks : UploadProducerStopsCancelled(t) => loc'[t].uploadErr = "ctx"]_vars
    /\ [][\A t \in Tasks : pc[t] = "drain" /\ loc[t].uploadErr = "ctx" /\ pc'[t] # "drain" =>
            pc'[t] = "returned" /\ ret'[t].err = "ctx"]_vars
    /\ [][DownloadProducerStopsCancelled => dlLoc'.downloadErr = "ctx"]_vars
    /\ [][dlPc = "drain" /\ dlLoc.downloadErr = "ctx" /\ dlPc' # "drain" =>
            dlPc' = "returned" /\ dlRet'.err = "ctx"]_vars

\* C29: in Upload, ResumeUpload, Download and ResumeDownload a worker of a
\* slice or part is started only while the context is not cancelled, also
\* when the producer was waiting for a permit of the semaphore when the
\* context was cancelled, and the call returns the reason of the
\* cancellation.
C29_AdmittedOnlyWhileLive ==
    /\ [][\A t \in Tasks : cancelled[t] =>
            \A k \in SliceIdx : work[t][k].st = "none" => work'[t][k].st = "none"]_vars
    /\ [][dlCancelled => dlWork'.run \subseteq dlWork.run]_vars
    /\ ReturnsCancellationReason

\* What holds of C29: the producer that is at the head of its loop under a
\* cancelled context starts no worker and goes on to return the reason of
\* the cancellation; a worker is started under a cancelled context only by
\* a producer that waits for a permit.
CancellationSeenBeforeTheSemaphore ==
    /\ [][\A t \in Tasks : cancelled[t] /\ pc[t] # "sem" =>
            \A k \in SliceIdx : work[t][k].st = "none" => work'[t][k].st = "none"]_vars
    /\ [][dlCancelled /\ dlPc # "sem" => dlWork'.run \subseteq dlWork.run]_vars
    /\ [][\A t \in Tasks : cancelled[t] /\ pc[t] = "loop" => pc'[t] \in {"loop", "drain"}]_vars
    /\ [][dlCancelled /\ dlPc = "loop" => dlPc' \in {"loop", "drain"}]_vars
    /\ ReturnsCancellationReason

\* C30: TryPrepare honours the cancellation of its context: once the
\* context is cancelled it starts no HEAD attempt and sleeps no more between
\* attempts (a pass of the loop that is not the first sleeps, then starts its
\* attempt), and it returns the reason of the cancellation.
C30_ProbeHonoursCancellation ==
    /\ [][retry.kind = "probe" /\ retry.cancelled => retry'.tries = retry.tries]_vars
    /\ [](retry.kind = "probe" /\ retry.pc = "done" /\ retry.cancelled /\ retry.ok = 0 =>
            retry.err.why = "ctx")

\* What TryPrepare does under a cancelled context: it makes all its
\* attempts and returns the error of the last one.
CancelledProbeRunsOut ==
    [](retry.kind = "probe" /\ retry.pc = "done" /\ retry.cancelled /\ retry.ok = 0 =>
            /\ retry.tries = PrepareTryNum
            /\ retry.err.at = PrepareTryNum /\ retry.err.why # "nil")

\* The consumer leaves its loop when it has received one result for every
\* worker that was started, no worker is left inside its driver, and the
\* snapshot has every slice or part that succeeded.
DrainedAsAdmitted ==
    /\ [][\A t \in Tasks : pc[t] = "drain" /\ pc'[t] # "drain" =>
            /\ loc[t].recv = loc[t].uploadSliceNum
            /\ \A k \in SliceIdx : work[t][k].st # "run"
            /\ uploadRespChan[t] = <<>>
            /\ DoneSet(retSnapshot[t]) = Succeeded(t)]_vars
    /\ [][dlPc = "drain" /\ dlPc' # "drain" =>
            /\ dlLoc.recv = dlLoc.downloadPartNum
            /\ dlWork.run = {}
            /\ downloadRespChan.msgs = {}
            /\ FilesFromSnapshot(snapshot) = disk]_vars

\* C31: in Upload, ResumeUpload, Download and ResumeDownload no slice or
\* part is admitted once a worker has failed after its retries, and before
\* the call returns the consumer receives as many results as workers were
\* admitted, so that every slice or part that succeeded is in the snapshot
\* even when another one failed.
C31_NoAdmissionAfterFailure ==
    /\ [][\A t \in Tasks : hasFailed[t] =>
            \A k \in SliceIdx : work[t][k].st = "none" => work'[t][k].st = "none"]_vars
    /\ [][dlHasFailed => dlWork'.run \subseteq dlWork.run]_vars
    /\ DrainedAsAdmitted

\* C32: the temp file of a failed attempt of a download part is removed
\* before the next attempt starts; when the retries of a part are used up
\* its last temp path, if there is one, is put on the deletion list and is
\* not recorded in snapshot.done_parts; a file_path recorded there is the
\* file of an attempt that wrote to - from + 1 bytes.
C32_PartTempFiles ==
    /\ [][retry.kind = "part" /\ retry'.tries # retry.tries => retry.files = {}]_vars
    /\ [](retry.kind = "part" /\ retry.consumed /\ retry.err.why # "nil" =>
            /\ retry.donePath = 0
            /\ retry.delFiles = IF retry.FilePath # 0 THEN {retry.FilePath} ELSE {})
    /\ [](retry.kind = "part" /\ retry.donePath # 0 =>
            /\ retry.donePath = retry.ok
            /\ retry.sent = retry.len
            /\ retry.files = {retry.donePath}
            /\ retry.delFiles = {})

\* The ten attempts of a part failed, all but the last with bytes written
\* or not, the last one after it created its file: that file is on the
\* deletion list and the snapshot has no path.
C32_Witness ==
    /\ retry.kind = "part" /\ retry.consumed
    /\ retry.tries = 10 /\ retry.err.why = "net"
    /\ retry.FilePath = 10 /\ retry.delFiles = {10}
    /\ retry.donePath = 0

\* Every part of the plan is non-empty and inside the file.
PartsInsideFile ==
    \A i \in 1..Len(jobs) :
        /\ 0 <= jobs[i].From
        /\ jobs[i].From <= jobs[i].To
        /\ jobs[i].To <= d.FileSize - 1

\* C33: for every file_size >= 1 and part_size >= 1 every part of the plan,
\* the last one too, has 0 <= from <= to <= file_size - 1, so that no Range
\* request has to < from or to >= file_size.
C33_PartsInsideFile ==
    jobs # <<>> /\ d.FileSize >= 1 /\ d.PartSize >= 1 => PartsInsideFile

\* C33 holds of the plans in which the parts before the last one, each of
\* each_size + 1 bytes, leave a byte to the last one.
PartsInsideFileWhenRoom ==
    /\ jobs # <<>> /\ d.FileSize >= 1 /\ d.PartSize >= 1
    /\ (Len(jobs) - 1) * ((d.FileSize \div Len(jobs)) + 1) < d.FileSize
    => PartsInsideFile

\* The create requests of task t have slice_num entries, none empty.
CreateHasAllSlices(t) ==
    \A j \in 1..Len(wire[t].create) :
        LET req == wire[t].create[j] IN
        /\ Len(req.block_list) = retSnapshot[t].SliceNum
        /\ \A i \in 1..Len(req.block_list) : req.block_list[i] # 0

\* C34: Upload and ResumeUpload send the create request only with a
\* block_list whose slice_num entries are all non-empty; when the local
\* file gives fewer bytes than total_size (a read returns 0 bytes before
\* slice_num slices were admitted) the call returns an error and commits
\* nothing.
C34_CreateOnlyWithAllSlices ==
    \A t \in Tasks : CreateHasAllSlices(t)

\* C34 holds of the calls on the file the snapshot describes.
CreateWithAllSlicesOfSameFile ==
    \A t \in Tasks : ~FileChanged(t) => CreateHasAllSlices(t)

\* C35: every done_size passed to the progress callback is from 0 to
\* total_size, in every phase and under every interleaving of the workers,
\* also in the ticks that follow the rollback of an upload slice whose
\* bytes had been cut down to total_size when they were counted.
C35_TicksInRange == prog.ranged

\* C35 holds of the downloads, whose handlers do not cut the counter down.
TicksInRangeOfDownloads ==
    prog.kind \in {"Download", "ResumeDownload", "DownloadWhole"} => prog.ranged

\* The call of the facade returned without error.
FacadeReturnedNil == facade.pc = "returned" /\ facade.err = "nil"

\* C36: when the Download or ResumeDownload of the facade returns without
\* error the destination file holds the file_size bytes the HEAD probe
\* announced, on the single-stream path too: a body that ends early or a
\* GET answered with a status above 299 makes the call return an error.
C36_DestinationHasFileSize ==
    FacadeReturnedNil => dest.touched /\ DestComplete(d.FileSize)

\* C36 holds of the calls that fetched the file in parts.
DestinationOfTheEngineHasFileSize ==
    FacadeReturnedNil /\ prog.kind # "DownloadWhole" =>
        dest.touched /\ DestComplete(d.FileSize)

\* C37: handleSpecialChar(handleSpecialChar(p)) = handleSpecialChar(p) for
\* every path p: the uploader that is built again, for a resume, from the
\* path an uploader stored has the same path.
C37_SanitiseIdempotent ==
    pure.op = "NewUploader" /\ pure.done => handleSpecialChar(pure.out) = pure.out

\* C37 holds of the paths that have no backslash in them.
SanitiseIdempotentWithoutBackslash ==
    /\ pure.op = "NewUploader" /\ pure.done
    /\ \A i \in 1..Len(pure.in) : pure.in[i] # "bs"
    => handleSpecialChar(pure.out) = pure.out

\* Upload of task t leaves its setup of Phase 2 (lines 126-138) with the
\* slice size of its precreate request, and with as many slices as the
\* block_list of that request has entries.
SameSliceSizeAtSetup(t) ==
    LET req == wire[t].precreate[Len(wire[t].precreate)] IN
    /\ retSnapshot'[t].SliceSize = req.sliceSize
    /\ retSnapshot'[t].SliceNum = req.blocks

\* C38: within one Upload call the slice size the block_list of precreate
\* was computed with is the slice size the slices of Phase 2 are cut with,
\* whatever each lookup of the user's tier gave (one that fails in one call
\* of GetSliceSize and answers in the next changes nothing), so that the
\* block_list of precreate has slice_num entries.
C38_OneSliceSizePerCall ==
    [][\A t \in Tasks : kind[t] = "Upload" /\ pc[t] = "lock" /\ pc'[t] # "lock" =>
            SameSliceSizeAtSetup(t)]_vars

\* C38 holds of the calls in which u.SliceSize is set when Phase 2 starts:
\* by the caller, or by the GetSliceSize of precreate.
OneSliceSizeWhenCached ==
    [][\A t \in Tasks : /\ kind[t] = "Upload" /\ pc[t] = "lock" /\ pc'[t] # "lock"
                        /\ uploader[t].SliceSize > 0
                        => SameSliceSizeAtSetup(t)]_vars


\* ------------------------------------------------------------ termination
\* The steps of the goroutine a call of Upload or ResumeUpload of task t
\* runs in, but for the wait for UploadLock.
UploadCallStep(t) ==
    \/ UploadPreCreate(t)
    \/ UploadLoop(t)
    \/ Admit(t)
    \/ DrainRecv(t)
    \/ DrainEnd(t)
    \/ Commit(t)
    \/ ResumeLoop(t)

\* UploadLock.Lock() of Upload and of ResumeUpload.
UploadLockStep(t) == UploadSetup(t) \/ ResumeSetup(t)

\* The goroutine of slice k: the request, the send of its result and the
\* receive from sem.
UploadWorkerStep(t, k) == Worker(t, k) \/ Release(t, k)

\* Every network and disk operation returns and the scheduler runs every
\* goroutine that can run; sync.Mutex hands the lock to a goroutine that
\* has waited for it (its starvation mode).  Cancelling a context and
\* calling ResumeUpload are the caller's choice.
UploadFairness ==
    \A t \in Tasks :
        /\ WF_vars(UploadCallStep(t))
        /\ SF_vars(UploadLockStep(t))
        /\ \A k \in SliceIdx : WF_vars(UploadWorkerStep(t, k))

SpecLive == Init /\ [][Next]_vars /\ UploadFairness

SpecTwoLive == InitTwo /\ [][Next]_vars /\ UploadFairness

\* The steps of the goroutine a call of Download or ResumeDownload runs in.
DownloadCallStep ==
    \/ DownloadPlan
    \/ DownloadLoop
    \/ DlAdmit
    \/ DlDrainRecv
    \/ DlDrainEnd
    \/ DlMergeOpen
    \/ DlMergeCopy
    \/ ResumeDownloadSetup
    \/ ResumeDownloadLoop

\* The engine runs on a file of one part and on a file of two parts,
\* with one worker and with five, in any surroundings.
InitDownloadLive ==
    \E fileSize \in {7, 14}, n \in {CoroutineNumDefault, CoroutineNumSvip} :
        InitDownloadOf(NewDownloader(fileSize, 7, n), FALSE)

\* The indices of the parts of the files of InitDownloadLive.
DownloadPartIdx == 0..1

\* The goroutine of part k: the request with the send of its result, and
\* the receive from sem.
DownloadFairness ==
    /\ WF_vars(DownloadCallStep)
    /\ \A k \in DownloadPartIdx : WF_vars(PartWorker(k)) /\ WF_vars(PartRelease(k))

SpecDownloadLive == InitDownloadLive /\ [][NextDownload]_vars /\ DownloadFairness

\* A call of task t is under way.
UploadCalled(t) == pc[t] \notin {"off", "returned"}

\* What holds of task t at a return: UploadLock is not held by it, none of
\* its workers is in its request, and the results of the workers it
\* started are all received.
UploadReturnedClean(t) ==
    pc[t] = "returned" =>
        /\ UploadLock # t
        /\ \A k \in SliceIdx : work[t][k].st # "run"
        /\ uploadRespChan[t] = <<>>

\* C39: every Upload and ResumeUpload call returns (each network and disk
\* operation returns, two permits): no worker waits forever to send its
\* result, every permit of sem is given back, no worker is in its request
\* when the call returns, and UploadLock is released at every return, so
\* that a call waiting for the lock goes on.
C39_CallsReturn ==
    /\ \A t \in Tasks : UploadCalled(t) ~> pc[t] = "returned"
    /\ \A t \in Tasks : \A k \in SliceIdx :
          work[t][k].st # "none" ~> work[t][k].st = "none"
    /\ [](\A t \in Tasks : UploadReturnedClean(t))

\* C39 holds of the uploads of files that are not empty, two of them in
\* one process: both return, one after the lock the other held.
UploadsOfTwoReturn ==
    /\ \A t \in Tasks : UploadCalled(t) ~> pc[t] = "returned"
    /\ \A t \in Tasks : \A k \in SliceIdx :
          work[t][k].st # "none" ~> work[t][k].st = "none"
    /\ \A t \in Tasks : pc[t] \in {"lock", "rlock"} ~> pc[t] \notin {"lock", "rlock"}
    /\ [](\A t \in Tasks : UploadReturnedClean(t))

\* C39 holds of the download engine: every Download and ResumeDownload
\* call returns, with no part in its request and every result received,
\* and every permit is given back.
DownloadsReturn ==
    /\ dlPc \notin {"off", "returned"} ~> dlPc = "returned"
    /\ \A k \in DownloadPartIdx : k \in dlWork.run ~> k \notin dlWork.run
    /\ \A k \in DownloadPartIdx : k \in dlWork.sent ~> k \notin dlWork.sent
    /\ [](dlPc = "returned" => dlWork.run = {} /\ downloadRespChan.msgs = {})

\* C39 holds of every upload but for the panic of the upload of an empty
\* file: a call returns or panics, and the rest of C39 holds.
CallsReturnOrPanic ==
    /\ \A t \in Tasks : UploadCalled(t) ~> pc[t] \in {"returned", "panicked"}
    /\ \A t \in Tasks : \A k \in SliceIdx :
          work[t][k].st # "none" ~> work[t][k].st = "none"
    /\ [](\A t \in Tasks : UploadReturnedClean(t))

====
